---- MODULE Spec2Model ----
(***************************************************************************)
(* Verification model of syzygy's capture and audio engine.                *)
(*                                                                         *)
(*   Spec      CaptureSession (src/capture/capture_session.cpp): the       *)
(*             caller thread running start / stop / set_latency_preset /   *)
(*             latest_frame, the capture thread running streaming_loop,    *)
(*             and the V4L2 driver as the environment.                     *)
(*   SpecMode  the mode selection of configure_device, applied to          *)
(*             bounded driver enumerations.                                *)
(*   SpecYuv   CaptureSession::yuyv_to_rgb applied to one YUYV group.      *)
(*   SpecConv  the loop of yuyv_to_rgb over an image of bounded size.      *)
(*   SpecFind  find_source_node (src/audio/pipewire_controller.cpp): the   *)
(*             scan of the PipeWire registry for the capture card's node.  *)
(*   SpecAudio PipeWireController: start / stop called by MainWindow or    *)
(*             another caller, and the capture and playback callbacks.     *)
(*   SpecLive  Spec with fair scheduling of the capture thread and join.   *)
(*   SpecFindLive  SpecFind with fair scheduling and a deadline that       *)
(*             passes.                                                     *)
(*   SpecPool  util::ThreadPool (util/thread_pool.hpp): workers, enqueue   *)
(*             and the destructor, under fair scheduling.                  *)
(***************************************************************************)
EXTENDS Integers, Sequences, FiniteSets, TLC

VARIABLES
  \* ---- CaptureSession members (capture_session.hpp) ----
  device_path_,    \* std::string device_path_ ("" before the first start)
  preset_,         \* LatencyPreset preset_
  latest_frame_,   \* Frame latest_frame_
  frame_ready_,    \* bool frame_ready_
  worker_,         \* std::thread worker_: TRUE iff worker_.joinable()
  running_,        \* std::atomic<bool> running_
  fd_,             \* int fd_
  width_,          \* uint32_t width_
  height_,         \* uint32_t height_
  buffers_,        \* std::vector<Buffer> buffers_
  \* ---- the capture thread (streaming_loop) ----
  tpc,             \* position of the capture thread in streaming_loop
  t_buf,           \* v4l2_buffer buf it dequeued: index (-1: none) and
                   \* bytesused
  t_frame,         \* the Frame local it built
  t_exit,          \* why the thread left its loop: "none" | "stop" | "fatal"
  t_err,           \* the failed call of this loop iteration and its errno
  \* ---- the caller thread ----
  stack,           \* what is left to run of the current API call
  curOp,           \* the current (or last) API call and its arguments
  ret,             \* result of curOp: "none" | "true" | "false" | "void"
  oplog,           \* driver requests and thread operations issued by curOp
  cfg,             \* what the driver answered to the last configure_device
  crashed,         \* std::terminate was called
  session_published, \* the thread of the latest successful start() has
                   \* published a frame (history of line 374)
  \* ---- the kernel side of the session ----
  k_open,          \* descriptors of the device the process holds open
  k_maps,          \* buffer mappings the process holds
  k_queued,        \* buffer indices owned by the driver
  k_streaming,     \* VIDIOC_STREAMON is in effect
  \* ---- mode selection on its own (SpecMode) ----
  m_enum,          \* the driver's enumeration, flattened in enumeration order
  m_idx,           \* next enumeration answer to process
  m_best,          \* BestMode best
  \* ---- yuyv_to_rgb on one 4-byte group (SpecYuv) ----
  y_width,         \* uint32_t width
  y_height,        \* uint32_t height
  y_src,           \* src[0..3]: Y0 U Y1 V
  y_dst,           \* dst[0..5]: R0 G0 B0 R1 G1 B1 (<< >> before the call)
  \* ---- the loop of yuyv_to_rgb over an image (SpecConv) ----
  y_pc,            \* "idle", "loop" or "done"
  y_i,             \* size_t i
  y_read,          \* bytes read: src minus the src passed in
  y_written,       \* bytes written: dst minus the dst passed in
  \* ---- find_source_node on its own (SpecFind) ----
  f_bus_path,      \* argument bus_path (optional)
  f_label_hint,    \* argument label_hint (optional)
  f_registry,      \* the globals of the PipeWire registry, in announcement order
  f_next,          \* index of the next global to announce
  f_finder,        \* SourceFinder finder
  f_pc,            \* "idle" | "scan" | "done"
  f_expired,       \* steady_clock::now() >= deadline
  f_result,        \* the value returned
  \* ---- PipeWireController and its caller (SpecAudio) ----
  impl_,           \* the members of PipeWireController::Impl
  peak_level_,     \* std::atomic<float> peak_level_: "zero" | "rms" | "nan"
  pw_out,          \* the sink buffer queued by the latest step, when that
                   \* step was the playback callback
  pw_captured,     \* samples the capture stream has delivered so far
  pw_call,         \* the start()/stop() call made by the latest step, with
                   \* its outcome and result
  pw_fault,        \* the process has faulted
  app_pc,          \* MainWindow::start_current_device: "idle"|"first"|"second"
  audio_using_fallback_,  \* bool MainWindow::audio_using_fallback_
  \* ---- gain and peak level across threads (SpecGain) ----
  gain_,           \* float PipeWireController::gain_
  ui_access,       \* the access the interface thread is performing (optional)
  cb_access,       \* the access the pump thread is performing (optional)
  cb_pc,           \* on_capture_process: "idle" | "gain" | "peak"
  cb_gain,         \* its local float gain
  ui_seen,         \* what gain() / peak_level() returned last (optional)
  \* ---- DeviceMonitor (SpecMonitor) ----
  dm_callback_,    \* Callback callback_: holds a callable
  dm_thread_,      \* std::thread thread_ is joinable
  dm_running_,     \* std::atomic<bool> running_
  dm_pc,           \* position of run() on the watcher thread
  dm_select,       \* outcome of the latest select(): "none"|"ready"|"timeout"
  dm_device,       \* udev_device* device of this iteration (optional id)
  dm_socket,       \* events queued on the monitor's netlink socket
  dm_next,         \* id of the next event the kernel posts
  dm_received,     \* ids of the devices udev_monitor_receive_device returned
  dm_called,       \* ids of the events for which callback_() was invoked
  dm_dtor,         \* ~DeviceMonitor: "alive" | "joining" | "returned"
  \* ---- enumerate_devices (SpecEnum) ----
  en_dir,          \* the entries of /dev in the order the iterator yields them
  en_pc,           \* "scan" | "sort" | "inspect" | "returned"
  en_nodes,        \* std::vector<path> nodes
  en_idx,          \* index of the node the loop inspects next
  en_devices,      \* std::vector<CaptureDevice> devices
  en_opened,       \* descriptors opened so far
  en_closed,       \* descriptors closed so far
  \* ---- the frame snapshot, member by member (SpecFrame) ----
  frame_mutex_,    \* std::mutex frame_mutex_: "none" | "thread" | "reader"
  fr_latest,       \* Frame latest_frame_: per group of members, the number
                   \* of the publish that wrote it (0: as constructed)
  fr_ready,        \* bool frame_ready_
  fr_built,        \* frames streaming_loop has built so far
  fr_published,    \* publishes completed so far
  fr_tpc,          \* position of streaming_loop in its publish block
  fr_rpc,          \* position of latest_frame()
  fr_copy,         \* the Frame latest_frame() is copying into
  fr_seen,         \* publishes completed when latest_frame() read the flag
  fr_result,       \* the optional<Frame> latest_frame() returned
  \* ---- util::ThreadPool (SpecPool) ----
  tasks_,          \* std::queue<std::function<void()>> tasks_: task ids
  stopping_,       \* bool stopping_
  tp_workers,      \* threads_: per worker its position in worker_loop and
                   \* the task it holds (0: none)
  tp_main,         \* the owner of the pool: "idle" | "use" | "notify_one" |
                   \* "notify_all" | "join" | "done"
  tp_enqueued,     \* tasks enqueued so far
  tp_runs,         \* per task id, how often task() was invoked
  tp_joined        \* threads the destructor has joined so far

sessVars == <<device_path_, preset_, latest_frame_, frame_ready_, worker_,
              running_, fd_, width_, height_, buffers_>>
threadVars == <<tpc, t_buf, t_frame, t_exit, t_err>>
callerVars == <<stack, curOp, ret, oplog, cfg, crashed>>
kernelVars == <<k_open, k_maps, k_queued, k_streaming>>
modeVars == <<m_enum, m_idx, m_best>>
yuvVars == <<y_width, y_height, y_src, y_dst, y_pc, y_i, y_read, y_written>>
findVars == <<f_bus_path, f_label_hint, f_registry, f_next, f_finder, f_pc,
              f_expired, f_result>>
audioVars == <<impl_, peak_level_, pw_out, pw_captured, pw_call, pw_fault,
               app_pc, audio_using_fallback_>>
gainVars == <<gain_, ui_access, cb_access, cb_pc, cb_gain, ui_seen>>
monVars == <<dm_callback_, dm_thread_, dm_running_, dm_pc, dm_select,
             dm_device, dm_socket, dm_next, dm_received, dm_called, dm_dtor>>
enumVars == <<en_dir, en_pc, en_nodes, en_idx, en_devices, en_opened,
              en_closed>>
frameVars == <<frame_mutex_, fr_latest, fr_ready, fr_built, fr_published,
               fr_tpc, fr_rpc, fr_copy, fr_seen, fr_result>>
poolVars == <<tasks_, stopping_, tp_workers, tp_main, tp_enqueued, tp_runs,
              tp_joined>>
extraVars == <<gainVars, monVars, enumVars, frameVars, poolVars>>
otherVars == <<modeVars, yuvVars, findVars, audioVars, extraVars>>
vars == <<sessVars, threadVars, callerVars, kernelVars, session_published,
          otherVars>>

----------------------------------------------------------------------------
(* Bounds *)

\* number of device paths the caller may pass to start()
NumPaths == 2
\* longest driver enumeration SpecMode draws
MaxCands == 3

----------------------------------------------------------------------------
(* Mode selection: configure_device, lines 119-191 *)

\* BestMode best, as initialised at lines 119-131 from width_/height_.  The
\* score field is width*height*fps with fps = den/num of the interval; it is
\* kept as the pair (score_n, score_d) so that no rounding is introduced.
BestInit(w, h) ==
  [pixel_format |-> "YUYV", width |-> w, height |-> h,
   num |-> 1, den |-> 60, score_n |-> w * h * 60, score_d |-> 1,
   valid |-> FALSE]

\* the mutated acceptance test: a later candidate of equal score replaces best
evaluate_mode_take_last(best, pixfmt, width, height, num, den) ==
  IF num = 0 \/ den = 0 THEN best
  ELSE IF ~best.valid \/ width * height * den * best.score_d >= best.score_n * num
       THEN [pixel_format |-> pixfmt, width |-> width, height |-> height,
             num |-> num, den |-> den,
             score_n |-> width * height * den, score_d |-> num,
             valid |-> TRUE]
       ELSE best

\* the lambda evaluate_mode, lines 133-154
evaluate_mode(best, pixfmt, width, height, num, den) ==
  IF num = 0 \/ den = 0 THEN best
  ELSE IF ~best.valid \/ width * height * den * best.score_d > best.score_n * num
       THEN [pixel_format |-> pixfmt, width |-> width, height |-> height,
             num |-> num, den |-> den,
             score_n |-> width * height * den, score_d |-> num,
             valid |-> TRUE]
       ELSE best

\* One answer of the three nested enumeration loops (lines 156-191), flattened:
\* c is a (format, frame size, frame interval) triple as the driver reports it.
enum_body(best, c) ==
  IF c.pixfmt # "YUYV" THEN best
  ELSE IF c.size_type # "DISCRETE" THEN best
  ELSE IF c.ival_type = "DISCRETE"
       THEN evaluate_mode(best, c.pixfmt, c.width, c.height, c.num, c.den)
  ELSE IF c.ival_type = "STEPWISE"
       THEN evaluate_mode(
              evaluate_mode(best, c.pixfmt, c.width, c.height, c.num, c.den),
              c.pixfmt, c.width, c.height, c.max_num, c.max_den)
  ELSE best

RECURSIVE enum_from(_, _, _)
enum_from(best, enumeration, i) ==
  IF i > Len(enumeration) THEN best
  ELSE enum_from(enum_body(best, enumeration[i]), enumeration, i + 1)

\* the whole enumeration of configure_device
select_mode(w, h, enumeration) == enum_from(BestInit(w, h), enumeration, 1)

Cand(pf, st, w, h, it, n, d, mn, md) ==
  [pixfmt |-> pf, size_type |-> st, width |-> w, height |-> h,
   ival_type |-> it, num |-> n, den |-> d, max_num |-> mn, max_den |-> md]

\* Driver answers SpecMode draws from.  640x480@90 and 1280x720@30 have the
\* same score, as have the intervals 1/30 and 2/60 of one size.
CandSet ==
  { Cand("YUYV", "DISCRETE", 640, 480, "DISCRETE", 1, 30, 0, 0),
    Cand("YUYV", "DISCRETE", 640, 480, "DISCRETE", 1, 90, 0, 0),
    Cand("YUYV", "DISCRETE", 1280, 720, "DISCRETE", 1, 30, 0, 0),
    Cand("YUYV", "DISCRETE", 1280, 720, "DISCRETE", 2, 60, 0, 0),
    Cand("YUYV", "DISCRETE", 1280, 720, "DISCRETE", 1, 60, 0, 0),
    Cand("YUYV", "DISCRETE", 1920, 1080, "DISCRETE", 0, 60, 0, 0),
    Cand("YUYV", "DISCRETE", 1920, 1080, "DISCRETE", 1, 0, 0, 0),
    Cand("MJPG", "DISCRETE", 1920, 1080, "DISCRETE", 1, 60, 0, 0),
    Cand("YUYV", "STEPWISE", 1920, 1080, "DISCRETE", 1, 60, 0, 0),
    Cand("YUYV", "DISCRETE", 640, 480, "STEPWISE", 1, 90, 1, 30),
    Cand("YUYV", "DISCRETE", 1280, 720, "STEPWISE", 1, 30, 0, 1),
    Cand("YUYV", "DISCRETE", 1920, 1080, "CONTINUOUS", 1, 60, 1, 30) }

SeqsUpTo(S, n) == UNION { [1..k -> S] : k \in 0..n }


----------------------------------------------------------------------------
(* The V4L2 driver as the environment of one configure_device call *)

Presets == {"UltraLow", "Balanced", "Safe"}

\* device paths are numbered; 0 stands for the empty string
Paths == 1..NumPaths

\* the driver requests of configure_device, in the order they are issued
Stages == {"OPEN", "QUERYCAP", "S_FMT", "S_PARM", "REQBUFS", "QUERYBUF",
           "MMAP", "QBUF", "STREAMON"}

\* enumerations a device of Spec may report
DeviceEnums ==
  << << >>,
     << Cand("YUYV", "DISCRETE", 640, 480, "DISCRETE", 1, 30, 0, 0),
        Cand("YUYV", "DISCRETE", 1280, 720, "DISCRETE", 1, 30, 0, 0),
        Cand("YUYV", "DISCRETE", 640, 480, "DISCRETE", 1, 90, 0, 0) >> >>

\* One device as one configure_device call meets it:
\*   caps      the capability bits VIDIOC_QUERYCAP reports
\*   fail      the request the driver refuses ("NONE": it refuses none)
\*   fail_idx  for QUERYBUF / MMAP / QBUF, the buffer index it is refused at
\*   enum      which enumeration the device reports
\*   short     how many buffers fewer than requested VIDIOC_REQBUFS grants
\*   adjust    VIDIOC_S_FMT replaces the requested size by 640x480
\* A driver that refuses no request varies in everything else; a driver that
\* refuses one has both capabilities, so that the refused request is reached.
Drivers ==
  [caps : SUBSET {"VIDEO_CAPTURE", "STREAMING"},
   fail : {"NONE"},
   fail_idx : {0},
   enum : 1..Len(DeviceEnums),
   short : 0..1,
   adjust : BOOLEAN]
  \cup
  [caps : {{"VIDEO_CAPTURE", "STREAMING"}},
   fail : Stages \ {"QUERYBUF", "MMAP", "QBUF"},
   fail_idx : {0},
   enum : 1..Len(DeviceEnums),
   short : {0},
   adjust : {FALSE}]
  \cup
  [caps : {{"VIDEO_CAPTURE", "STREAMING"}},
   fail : {"QUERYBUF", "MMAP", "QBUF"},
   fail_idx : 0..1,
   enum : {2},
   short : {0},
   adjust : {FALSE}]

Ev(op, arg) == [op |-> op, arg |-> arg]

Ops(log) == { log[i].op : i \in 1..Len(log) }

\* the mutated buffer count: every preset asks for four buffers
preset_to_buffer_count_fixed(preset) == 4

\* preset_to_buffer_count, lines 31-41
preset_to_buffer_count(preset) ==
  CASE preset = "UltraLow" -> 2
    [] preset = "Balanced" -> 4
    [] OTHER -> 6

NullBuffer == [start |-> 0, length |-> 0]

\* The buffer loop of configure_device, lines 257-284, from index i on.
\* st carries buffers_, the requests issued, the mappings made, the indices
\* enqueued and the request that failed.
RECURSIVE map_buffers(_, _, _, _, _)
map_buffers(i, count, length, drv, st) ==
  IF i >= count THEN st
  ELSE IF drv.fail = "QUERYBUF" /\ drv.fail_idx = i
       THEN [st EXCEPT !.log = Append(@, Ev("QUERYBUF", i)),
                       !.failed = "QUERYBUF"]
  ELSE IF drv.fail = "MMAP" /\ drv.fail_idx = i
       THEN [st EXCEPT !.log = @ \o <<Ev("QUERYBUF", i), Ev("MMAP", i)>>,
                       !.failed = "MMAP"]
  ELSE LET mapped ==
             [st EXCEPT !.log = @ \o <<Ev("QUERYBUF", i), Ev("MMAP", i),
                                       Ev("QBUF", i)>>,
                        !.maps = @ + 1,
                        !.buffers[i + 1] = [start |-> i + 1, length |-> length]]
       IN IF drv.fail = "QBUF" /\ drv.fail_idx = i
          THEN [mapped EXCEPT !.failed = "QBUF"]
          ELSE map_buffers(i + 1, count, length, drv,
                           [mapped EXCEPT !.queued = @ \cup {i}])

\* the mutated capability test: the streaming capability is not looked at
caps_supported_capture_only(caps) == "VIDEO_CAPTURE" \in caps

\* the capability test of configure_device, lines 193-200
caps_supported(caps) == "VIDEO_CAPTURE" \in caps /\ "STREAMING" \in caps

\* What configure_device (lines 104-296) does on device drv, entered with
\* fd_ closed and buffers_ empty: its return value (ok), the members it leaves
\* (fd, width, height, buffers), the requests it issued (log), the request
\* that was refused (failed; a refused VIDIOC_S_PARM is in parm_failed) and
\* what the kernel now holds for the process (opened, maps, queued, streaming).
configure_device(path, preset, w, h, fdnew, drv) ==
  LET base == [ok |-> FALSE, fd |-> -1, width |-> w, height |-> h,
               buffers |-> << >>, log |-> <<Ev("OPEN", path)>>,
               failed |-> "OPEN", parm_failed |-> FALSE,
               best |-> BestInit(w, h),
               opened |-> 0, maps |-> 0, queued |-> {}, streaming |-> FALSE]
  IN
  IF drv.fail = "OPEN" THEN base
  ELSE
  LET o == [base EXCEPT !.fd = fdnew, !.opened = 1,
                        !.log = Append(@, Ev("QUERYCAP", 0)),
                        !.failed = "QUERYCAP"]
  IN
  IF drv.fail = "QUERYCAP" THEN o
  ELSE
  LET best == select_mode(w, h, DeviceEnums[drv.enum])
      q == [o EXCEPT !.best = best, !.failed = "NONE"]
  IN
  IF ~caps_supported(drv.caps) THEN q
  ELSE
  LET w1 == IF best.valid THEN best.width ELSE w
      h1 == IF best.valid THEN best.height ELSE h
      f == [q EXCEPT !.width = w1, !.height = h1,
                     !.log = Append(@, Ev("S_FMT", 0))]
  IN
  IF drv.fail = "S_FMT" THEN [f EXCEPT !.failed = "S_FMT"]
  ELSE
  LET w2 == IF drv.adjust THEN 640 ELSE w1
      h2 == IF drv.adjust THEN 480 ELSE h1
      parm == best.valid /\ best.num # 0 /\ best.den # 0
      p == [f EXCEPT !.width = w2, !.height = h2,
                     !.log = IF parm THEN Append(@, Ev("S_PARM", 0))
                             ELSE @,
                     !.parm_failed = parm /\ drv.fail = "S_PARM"]
      requested == preset_to_buffer_count(preset)
      r == [p EXCEPT !.log = Append(@, Ev("REQBUFS", requested))]
  IN
  IF drv.fail = "REQBUFS" THEN [r EXCEPT !.failed = "REQBUFS"]
  ELSE
  LET count == requested - drv.short
      m == map_buffers(0, count, w2 * h2 * 2, drv,
                       [r EXCEPT !.buffers = [i \in 1..count |-> NullBuffer]])
  IN
  IF m.failed # "NONE" THEN m
  ELSE
  LET s == [m EXCEPT !.log = Append(@, Ev("STREAMON", 0))]
  IN
  IF drv.fail = "STREAMON" THEN [s EXCEPT !.failed = "STREAMON"]
  ELSE [s EXCEPT !.ok = TRUE, !.streaming = TRUE]

\* the buffers munmap is called on, lines 303-306
Mapped(buffers) ==
  { i \in 1..Len(buffers) : buffers[i].start # 0 /\ buffers[i].length # 0 }

\* the mutated teardown: the mappings are forgotten without munmap
teardown_buffers_no_unmap(fd, buffers) ==
  [fd |-> -1,
   buffers |-> << >>,
   log |-> (IF fd >= 0 THEN <<Ev("STREAMOFF", 0), Ev("CLOSE", 0)>> ELSE << >>),
   closed |-> IF fd >= 0 THEN 1 ELSE 0,
   unmapped |-> 0]

\* the mutated teardown: the descriptor is closed but fd_ keeps its value
teardown_buffers_stale_fd(fd, buffers) ==
  [fd |-> fd,
   buffers |-> << >>,
   log |-> (IF fd >= 0 THEN <<Ev("STREAMOFF", 0)>> ELSE << >>)
           \o (IF Mapped(buffers) # {}
               THEN <<Ev("MUNMAP", Cardinality(Mapped(buffers)))>> ELSE << >>)
           \o (IF fd >= 0 THEN <<Ev("CLOSE", 0)>> ELSE << >>),
   closed |-> IF fd >= 0 THEN 1 ELSE 0,
   unmapped |-> Cardinality(Mapped(buffers))]

\* teardown_buffers, lines 298-315, on the members fd and buffers: the
\* members it leaves, the requests it issues, and how many descriptors it
\* closed and mappings it removed.
teardown_buffers(fd, buffers) ==
  [fd |-> -1,
   buffers |-> << >>,
   log |-> (IF fd >= 0 THEN <<Ev("STREAMOFF", 0)>> ELSE << >>)
           \o (IF Mapped(buffers) # {}
               THEN <<Ev("MUNMAP", Cardinality(Mapped(buffers)))>> ELSE << >>)
           \o (IF fd >= 0 THEN <<Ev("CLOSE", 0)>> ELSE << >>),
   closed |-> IF fd >= 0 THEN 1 ELSE 0,
   unmapped |-> Cardinality(Mapped(buffers))]


----------------------------------------------------------------------------
(* The caller thread: start, stop, set_latency_preset, latest_frame *)

ZeroFrame == [width |-> 0, height |-> 0, stride |-> 0, rgb_len |-> 0]

\* An API call: its name and arguments, and what the session was like when it
\* was made (cycle: set_latency_preset found a new preset and running_ set;
\* after_stop: the call before it was stop(); same_path: start() is given the
\* path device_path_ holds; after_fatal: the capture thread had ended itself
\* on an I/O error and had not been joined).
NoOp == [name |-> "none", path |-> 0, preset |-> "UltraLow",
         cycle |-> FALSE, after_stop |-> FALSE, same_path |-> FALSE,
         after_fatal |-> FALSE]

\* What the last configure_device call met: the capability bits the driver
\* reported, the request it refused, whether it refused VIDIOC_S_PARM, the
\* number of buffers it granted, and the value configure_device returned.
NoCfg == [ok |-> FALSE, caps |-> {}, failed |-> "NONE",
          parm_failed |-> FALSE, granted |-> 0]

Idle == ~running_ /\ fd_ = -1 /\ buffers_ = << >>

\* a failed poll / VIDIOC_DQBUF / VIDIOC_QBUF of streaming_loop with its errno
Err(call, errno) == [call |-> call, errno |-> errno]
NoErr == Err("none", "none")

\* a new API call may be made: the previous one has returned
CallerReady == stack = << >> /\ ~crashed

\* bookkeeping common to the entry of every API call
Enter(op) ==
  /\ curOp' = op
  /\ oplog' = << >>

\* the members and kernel state teardown_buffers() leaves
Teardown(log) ==
  \E t \in {teardown_buffers(fd_, buffers_)} :
  /\ fd_' = t.fd
  /\ buffers_' = t.buffers
  /\ oplog' = log \o t.log
  /\ k_open' = k_open - t.closed
  /\ k_maps' = k_maps - t.unmapped
  /\ k_queued' = IF t.closed > 0 THEN {} ELSE k_queued
  /\ k_streaming' = IF t.closed > 0 THEN FALSE ELSE k_streaming

\* what the caller gets when the last label of a call has run
Returned(rest) == IF rest = << >> /\ curOp.name = "stop" THEN "void" ELSE ret

\* CaptureSession::stop() is called (line 70)
CallStop ==
  /\ CallerReady
  /\ Enter([NoOp EXCEPT !.name = "stop",
                        !.after_stop = (curOp.name = "stop")])
  /\ stack' = <<"stop_check">>
  /\ ret' = "none"
  /\ UNCHANGED <<sessVars, threadVars, kernelVars, otherVars, session_published, cfg, crashed>>

\* CaptureSession::start(device_path, preset) is called (line 51); its first
\* statement is the call of stop() (line 53)
CallStart(path, preset) ==
  /\ CallerReady
  /\ Enter([NoOp EXCEPT !.name = "start", !.path = path, !.preset = preset,
                        !.after_stop = (curOp.name = "stop"),
                        !.same_path = (path = device_path_),
                        !.after_fatal = (~running_ /\ worker_ /\ t_exit = "fatal")])
  /\ stack' = <<"stop_check", "start_body">>
  /\ ret' = "none"
  /\ UNCHANGED <<sessVars, threadVars, kernelVars, otherVars, session_published, cfg, crashed>>

\* the mutated test of set_latency_preset: the early return is missing
preset_unchanged_never(preset, current) == FALSE

\* the test of line 83
preset_unchanged(preset, current) == preset = current

\* CaptureSession::set_latency_preset(preset), lines 82-94, up to its call of
\* stop() at line 92 (stop() re-reads running_ in a later step)
CallSetLatencyPreset(preset) ==
  /\ CallerReady
  /\ IF preset_unchanged(preset, preset_)
     THEN /\ Enter([NoOp EXCEPT !.name = "set_latency_preset",
                                !.path = device_path_, !.preset = preset])
          /\ ret' = "true"
          /\ stack' = << >>
          /\ UNCHANGED preset_
     ELSE /\ preset_' = preset
          /\ IF ~running_
             THEN /\ Enter([NoOp EXCEPT !.name = "set_latency_preset",
                                        !.path = device_path_,
                                        !.preset = preset])
                  /\ ret' = "true"
                  /\ stack' = << >>
             ELSE \* const std::string device = device_path_; stop();
                  \* return start(device, preset_);
                  /\ Enter([NoOp EXCEPT !.name = "set_latency_preset",
                                        !.path = device_path_,
                                        !.preset = preset, !.cycle = TRUE])
                  /\ ret' = "none"
                  /\ stack' = <<"stop_check", "stop_check", "start_body">>
  /\ UNCHANGED <<device_path_, latest_frame_, frame_ready_, worker_, running_,
                 fd_, width_, height_, buffers_>>
  /\ UNCHANGED <<threadVars, kernelVars, otherVars, session_published, cfg, crashed>>

\* CaptureSession::latest_frame(), lines 96-102: what a call made in the
\* current state returns (has: the optional holds a Frame)
latest_frame ==
  IF ~frame_ready_ THEN [has |-> FALSE, frame |-> ZeroFrame]
  ELSE [has |-> TRUE, frame |-> latest_frame_]

\* stop(), lines 71-75: the test of running_ and, when it is set, its reset
StopCheck ==
  /\ ~crashed
  /\ stack # << >> /\ Head(stack) = "stop_check"
  /\ IF ~running_
     THEN /\ Teardown(oplog)
          /\ stack' = Tail(stack)
          /\ ret' = Returned(Tail(stack))
          /\ UNCHANGED running_
     ELSE /\ running_' = FALSE
          /\ stack' = <<"stop_join">> \o Tail(stack)
          /\ UNCHANGED <<fd_, buffers_, oplog, ret, kernelVars>>
  /\ UNCHANGED <<device_path_, preset_, latest_frame_, frame_ready_, worker_,
                 width_, height_>>
  /\ UNCHANGED <<threadVars, otherVars, session_published, curOp, cfg, crashed>>

\* stop(), lines 76-79: join the worker if it is joinable, then tear down.
\* join() returns once the thread function has returned.
StopJoin ==
  /\ ~crashed
  /\ stack # << >> /\ Head(stack) = "stop_join"
  /\ IF worker_
     THEN /\ tpc = "done"
          /\ worker_' = FALSE
          /\ tpc' = "none"
          /\ t_exit' = "none"
          /\ t_err' = NoErr
          /\ Teardown(Append(oplog, Ev("JOIN", 0)))
     ELSE /\ Teardown(oplog)
          /\ UNCHANGED <<worker_, tpc, t_exit, t_err>>
  /\ stack' = Tail(stack)
  /\ ret' = Returned(Tail(stack))
  /\ UNCHANGED <<device_path_, preset_, latest_frame_, frame_ready_, running_,
                 width_, height_>>
  /\ UNCHANGED <<t_buf, t_frame, otherVars, session_published, curOp, cfg, crashed>>

\* start(), lines 55-67, after its call of stop().  Assigning a new thread to
\* a worker_ that is still joinable calls std::terminate.
StartBody ==
  /\ ~crashed
  /\ stack # << >> /\ Head(stack) = "start_body"
  /\ device_path_' = curOp.path
  /\ preset_' = curOp.preset
  /\ stack' = Tail(stack)
  /\ \E drv \in Drivers :
     \E r \in {configure_device(curOp.path, curOp.preset, width_, height_,
                                3 + k_open, drv)} :
     \E t \in {teardown_buffers(r.fd, r.buffers)} :
       /\ width_' = r.width
       /\ height_' = r.height
       /\ cfg' = [ok |-> r.ok,
                  caps |-> IF r.failed \in {"OPEN", "QUERYCAP"} THEN {}
                           ELSE drv.caps,
                  failed |-> r.failed,
                  parm_failed |-> r.parm_failed,
                  granted |-> Len(r.buffers)]
       /\ IF ~r.ok
          THEN /\ fd_' = t.fd
               /\ buffers_' = t.buffers
               /\ oplog' = oplog \o r.log \o t.log
               /\ k_open' = k_open + r.opened - t.closed
               /\ k_maps' = k_maps + r.maps - t.unmapped
               /\ k_queued' = IF t.closed > 0 THEN {} ELSE r.queued
               /\ k_streaming' = IF t.closed > 0 THEN FALSE ELSE r.streaming
               /\ ret' = "false"
               /\ UNCHANGED <<running_, worker_, tpc, t_exit, t_err, crashed>>
          ELSE /\ fd_' = r.fd
               /\ buffers_' = r.buffers
               /\ k_open' = k_open + r.opened
               /\ k_maps' = k_maps + r.maps
               /\ k_queued' = r.queued
               /\ k_streaming' = r.streaming
               /\ running_' = TRUE
               /\ IF worker_
                  THEN /\ crashed' = TRUE
                       /\ oplog' = oplog \o r.log
                       /\ ret' = "none"
                       /\ UNCHANGED <<worker_, tpc, t_exit, t_err>>
                  ELSE /\ worker_' = TRUE
                       /\ tpc' = "loop"
                       /\ t_exit' = "none"
                       /\ t_err' = NoErr
                       /\ oplog' = oplog \o r.log \o <<Ev("SPAWN", 0)>>
                       /\ ret' = "true"
                       /\ UNCHANGED crashed
  /\ session_published' = (session_published /\ ret' # "true")
  /\ UNCHANGED <<latest_frame_, frame_ready_, t_buf, t_frame, otherVars,
                 curOp>>


----------------------------------------------------------------------------
(* The capture thread: streaming_loop, lines 317-385 *)

\* the mutated frame: the RGB buffer is sized for one byte per pixel
make_frame_one_byte(w, h) ==
  [width |-> w, height |-> h, stride |-> w * 3, rgb_len |-> w * h]

\* the Frame built at lines 352-358
make_frame(w, h) ==
  [width |-> w, height |-> h, stride |-> w * 3, rgb_len |-> (w * 3) * h]

ThreadAlive == ~crashed /\ tpc \notin {"none", "done"}

\* lines 324-332 and 339-346: a failed poll() is retried (continue) when
\* errno is EINTR, a failed VIDIOC_DQBUF when errno is EAGAIN; every other
\* failure, and every failed VIDIOC_QBUF (lines 377-381), breaks the loop.
\* xioctl (lines 23-29) repeats an interrupted ioctl itself, so the loop
\* never sees EINTR from the two ioctls.
retried_never(call, errno) == FALSE

retried(call, errno) ==
  \/ call = "poll" /\ errno = "EINTR"
  \/ call = "dqbuf" /\ errno = "EAGAIN"

\* the thread takes the failure of a call: back to the loop head, or out
AfterFailure(call, errno) ==
  /\ t_err' = Err(call, errno)
  /\ IF retried(call, errno)
     THEN tpc' = "loop" /\ UNCHANGED t_exit
     ELSE tpc' = "exit" /\ t_exit' = "fatal"

\* while (running_), line 318
\* a loop head that does not test running_ (while (true))
ThreadLoop_unconditional ==
  /\ ~crashed /\ tpc = "loop"
  /\ tpc' = "poll" /\ UNCHANGED t_exit
  /\ t_err' = NoErr
  /\ UNCHANGED <<sessVars, callerVars, kernelVars, otherVars, session_published, t_buf, t_frame>>

ThreadLoop ==
  /\ ~crashed /\ tpc = "loop"
  /\ IF running_
     THEN tpc' = "poll" /\ UNCHANGED t_exit
     ELSE tpc' = "exit" /\ t_exit' = "stop"
  /\ t_err' = NoErr
  /\ UNCHANGED <<sessVars, callerVars, kernelVars, otherVars, session_published, t_buf, t_frame>>

\* poll(&pfd, 1, 500), lines 323-333
ThreadPoll ==
  /\ ~crashed /\ tpc = "poll"
  /\ \/ \E errno \in {"EINTR", "EIO"} : AfterFailure("poll", errno)
     \/ \E result \in {"TIMEOUT", "READY"} :
          /\ tpc' = IF result = "TIMEOUT" THEN "loop" ELSE "dqbuf"
          /\ UNCHANGED <<t_exit, t_err>>
  /\ UNCHANGED <<sessVars, callerVars, kernelVars, otherVars, session_published, t_buf, t_frame>>

\* v4l2_buffer buf, lines 335-337; bytesused is what the driver reports for
\* the dequeued buffer: "zero", "short" (fewer than width*height*2 bytes) or
\* "full"
Buf(index, bytesused) == [index |-> index, bytesused |-> bytesused]
NoBuf == Buf(-1, "none")
BytesUsed == {"zero", "short", "full"}

\* VIDIOC_DQBUF and the conversion into a local Frame, lines 335-369:
\* buf.bytesused is not read, the frame is converted from buffer.start
\* whatever the driver filled in
ThreadDqbuf ==
  /\ ~crashed /\ tpc = "dqbuf"
  /\ \/ /\ \E errno \in {"EAGAIN", "EIO"} : AfterFailure("dqbuf", errno)
        /\ UNCHANGED <<t_buf, t_frame, k_queued>>
     \/ \E i \in k_queued, bytesused \in BytesUsed :
          /\ t_buf' = Buf(i, bytesused)
          /\ k_queued' = k_queued \ {i}
          /\ t_frame' = make_frame(width_, height_)
          /\ tpc' = "publish"
          /\ UNCHANGED <<t_exit, t_err>>
  /\ UNCHANGED <<sessVars, callerVars, otherVars, session_published, k_open, k_maps, k_streaming>>

\* the publication under frame_mutex_, lines 371-375
ThreadPublish ==
  /\ ~crashed /\ tpc = "publish"
  /\ latest_frame_' = t_frame
  /\ frame_ready_' = TRUE
  /\ session_published' = TRUE
  /\ tpc' = "qbuf"
  /\ UNCHANGED <<device_path_, preset_, worker_, running_, fd_, width_,
                 height_, buffers_>>
  /\ UNCHANGED <<callerVars, kernelVars, otherVars, t_buf, t_frame, t_exit,
                 t_err>>

\* the mutated re-queue: the loop goes on without VIDIOC_QBUF
ThreadQbuf_skipped ==
  /\ ~crashed /\ tpc = "qbuf"
  /\ tpc' = "loop"
  /\ t_buf' = NoBuf
  /\ t_frame' = ZeroFrame
  /\ UNCHANGED <<sessVars, callerVars, kernelVars, otherVars,
                 session_published, t_exit, t_err>>

\* VIDIOC_QBUF of the dequeued buffer, lines 377-381
ThreadQbuf ==
  /\ ~crashed /\ tpc = "qbuf"
  /\ \/ /\ k_queued' = k_queued \cup {t_buf.index}
        /\ tpc' = "loop"
        /\ UNCHANGED <<t_exit, t_err>>
     \/ /\ AfterFailure("qbuf", "EIO")
        /\ UNCHANGED k_queued
  /\ t_buf' = NoBuf
  /\ t_frame' = ZeroFrame
  /\ UNCHANGED <<sessVars, callerVars, otherVars, session_published, k_open, k_maps, k_streaming>>

\* running_ = false, line 384, and the return of the thread function
ThreadExit ==
  /\ ~crashed /\ tpc = "exit"
  /\ running_' = FALSE
  /\ tpc' = "done"
  /\ UNCHANGED <<device_path_, preset_, latest_frame_, frame_ready_, worker_,
                 fd_, width_, height_, buffers_>>
  /\ t_err' = NoErr
  /\ UNCHANGED <<callerVars, kernelVars, otherVars, session_published, t_buf, t_frame, t_exit>>

----------------------------------------------------------------------------
(* CaptureSession::yuyv_to_rgb, capture_session.cpp lines 387-436 *)

\* line 389
use_bt709(width, height) == width >= 1280 \/ height >= 720

\* lines 391-394: the coefficients, scaled by 256
Coeffs(bt709) ==
  IF bt709 THEN [r_v |-> 459, g_u |-> 55, g_v |-> 136, b_u |-> 541]
  ELSE [r_v |-> 409, g_u |-> 100, g_v |-> 208, b_u |-> 516]

\* a clamp that lets every value through
clamp_none(x, lo, hi) == x

\* std::clamp
clamp(x, lo, hi) == IF x < lo THEN lo ELSE IF x > hi THEN hi ELSE x

\* x >> 8 on int: the arithmetic shift, rounding toward minus infinity
shr8(x) == x \div 256

convert_unscaled(y, u_shift, v_shift, k) ==
  LET c == IF y - 16 < 0 THEN 0 ELSE y - 16
  IN <<clamp(shr8(256 * c + k.r_v * v_shift + 128), 0, 255),
       clamp(shr8(256 * c - k.g_u * u_shift - k.g_v * v_shift + 128), 0, 255),
       clamp(shr8(256 * c + k.b_u * u_shift + 128), 0, 255)>>

\* static_cast<uint8_t> and static_cast<int16_t> of an int
u8(x) == x % 256
i16(x) == ((x + 32768) % 65536) - 32768

\* the range of int
IntMax == 2147483647
InInt(x) == -IntMax - 1 <= x /\ x <= IntMax

\* the lambda convert, lines 404-423 (k: the coefficients it captures)
convert(y, u_shift, v_shift, k) ==
  LET c == IF y - 16 < 0 THEN 0 ELSE y - 16
      d == u_shift
      e == v_shift
  IN <<u8(clamp(shr8(298 * c + k.r_v * e + 128), 0, 255)),
       u8(clamp(shr8(298 * c - k.g_u * d - k.g_v * e + 128), 0, 255)),
       u8(clamp(shr8(298 * c + k.b_u * d + 128), 0, 255))>>

\* one iteration of the loop, lines 398-434, with the coefficients given
yuyv_group_with(src, k) ==
  LET y0 == src[1]
      u == src[2]
      y1 == src[3]
      v == src[4]
      u_shift == i16(u - 128)
      v_shift == i16(v - 128)
  IN convert(y0, u_shift, v_shift, k) \o convert(y1, u_shift, v_shift, k)

\* one iteration of the loop for an image of width x height
yuyv_group(src, width, height) ==
  yuyv_group_with(src, Coeffs(use_bt709(width, height)))

\* the bytes and image sizes tried
ByteSamples == {0, 15, 16, 100, 128, 235, 255}
Widths == {640, 1280, 1920}
Heights == {480, 720, 1080}

\* no loop of yuyv_to_rgb is under way
ConvIdle == y_pc = "idle" /\ y_i = 0 /\ y_read = 0 /\ y_written = 0

YuvIdle ==
  /\ y_width = 0 /\ y_height = 0
  /\ y_src = <<0, 0, 0, 0>> /\ y_dst = << >>
  /\ ConvIdle

\* yuyv_to_rgb converts the group
YuvConvert ==
  /\ y_dst = << >>
  /\ y_width > 0
  /\ y_pc = "idle"
  /\ y_dst' = yuyv_group(y_src, y_width, y_height)
  /\ UNCHANGED <<y_width, y_height, y_src, y_pc, y_i, y_read, y_written>>
  /\ UNCHANGED <<sessVars, threadVars, callerVars, kernelVars,
                 session_published, modeVars, findVars, audioVars,
                 extraVars>>

\* line 396
pixel_count(width, height) == width * height

\* line 397: the loop condition
loop_test(i, count) == i < count

\* image sides tried by the loop
MaxDim == 5

\* lines 397-434: one pass of the loop reads the next 4 source bytes,
\* converts them and writes 6 destination bytes
ConvGroup ==
  /\ y_pc = "loop"
  /\ loop_test(y_i, pixel_count(y_width, y_height))
  /\ y_read' = y_read + 4
  /\ y_dst' = yuyv_group(y_src, y_width, y_height)
  /\ y_written' = y_written + 6
  /\ y_i' = y_i + 2
  /\ UNCHANGED <<y_width, y_height, y_src, y_pc>>
  /\ UNCHANGED <<sessVars, threadVars, callerVars, kernelVars,
                 session_published, modeVars, findVars, audioVars,
                 extraVars>>

\* line 397: the loop condition fails and yuyv_to_rgb returns
ConvReturn ==
  /\ y_pc = "loop"
  /\ ~loop_test(y_i, pixel_count(y_width, y_height))
  /\ y_pc' = "done"
  /\ UNCHANGED <<y_width, y_height, y_src, y_dst, y_i, y_read, y_written>>
  /\ UNCHANGED <<sessVars, threadVars, callerVars, kernelVars,
                 session_published, modeVars, findVars, audioVars,
                 extraVars>>

----------------------------------------------------------------------------
(* Audio node resolution, pipewire_controller.cpp lines 35-187 *)

\* std::optional and nullable C strings: << >> is nullopt / NULL, <<v>> holds v
None == << >>
Some(v) == <<v>>
Has(o) == o # << >>
Val(o) == o[1]

\* std::tolower over the characters used
to_lower(c) == IF c = "A" THEN "a" ELSE IF c = "B" THEN "b" ELSE c

\* contains_ci, lines 52-72; strings are sequences of characters
contains_ci(haystack, needle) ==
  IF needle = << >> \/ Len(haystack) < Len(needle) THEN FALSE
  ELSE \E i \in 0..(Len(haystack) - Len(needle)) :
         \A j \in 1..Len(needle) :
           to_lower(haystack[i + j]) = to_lower(needle[j])

\* std::string::find(':'): the index before the first colon, -1 for npos
find_colon(str) ==
  IF \E i \in 1..Len(str) : str[i] = ":"
  THEN (CHOOSE i \in 1..Len(str) :
          str[i] = ":" /\ \A j \in 1..(i - 1) : str[j] # ":") - 1
  ELSE -1

\* SourceFinder::SourceFinder, lines 36-46
SourceFinder(bus_path, label_hint) ==
  [bus |-> IF Has(bus_path) THEN Val(bus_path) ELSE "",
   hints |-> IF Has(label_hint) /\ Val(label_hint) # << >>
             THEN <<Val(label_hint)>> \o
                  (IF find_colon(Val(label_hint)) >= 0
                   THEN <<SubSeq(Val(label_hint), 1,
                                 find_colon(Val(label_hint)))>>
                   ELSE << >>)
             ELSE << >>,
   node_id |-> None]

\* media.find("Audio/Source") != npos, over the media classes in use
has_audio_source(media) ==
  media \in {"Audio/Source", "Audio/Source/Virtual"}

\* lines 95-101: the first of device.bus-path, device.bus, device.serial
lookup_bus(props) ==
  IF Has(props.bus_path) THEN props.bus_path
  ELSE IF Has(props.bus) THEN props.bus
  ELSE props.serial

\* lines 116-132: some hint is contained in the node description, the node
\* name or the device description
hint_matches(hints, props) ==
  \E h \in 1..Len(hints) :
    /\ hints[h] # << >>
    /\ \/ Has(props.description) /\ Val(props.description) # << >>
          /\ contains_ci(Val(props.description), hints[h])
       \/ Has(props.name) /\ Val(props.name) # << >>
          /\ contains_ci(Val(props.name), hints[h])
       \/ Has(props.device_description)
          /\ Val(props.device_description) # << >>
          /\ contains_ci(Val(props.device_description), hints[h])

\* a listener without the early return for a finder that holds a node
registry_global_cb_replacing(finder, g) ==
  IF g.type # "Node" THEN finder
  ELSE IF ~Has(g.media_class) THEN finder
  ELSE IF ~has_audio_source(Val(g.media_class)) THEN finder
  ELSE IF Has(lookup_bus(g)) /\ finder.bus = Val(lookup_bus(g))
       THEN [finder EXCEPT !.node_id = Some(g.id)]
  ELSE IF hint_matches(finder.hints, g)
       THEN [finder EXCEPT !.node_id = Some(g.id)]
  ELSE finder

\* registry_global_cb, lines 74-135: the finder after the announcement of
\* global g
registry_global_cb(finder, g) ==
  IF Has(finder.node_id) THEN finder
  ELSE IF g.type # "Node" THEN finder
  ELSE IF ~Has(g.media_class) THEN finder
  ELSE IF ~has_audio_source(Val(g.media_class)) THEN finder
  ELSE IF Has(lookup_bus(g)) /\ finder.bus = Val(lookup_bus(g))
       THEN [finder EXCEPT !.node_id = Some(g.id)]
  ELSE IF hint_matches(finder.hints, g)
       THEN [finder EXCEPT !.node_id = Some(g.id)]
  ELSE finder

\* one global of the registry
Global(id, type, media, bus_path, serial, description, name) ==
  [id |-> id, type |-> type, media_class |-> media, bus_path |-> bus_path,
   bus |-> None, serial |-> serial, description |-> description,
   name |-> name, device_description |-> None]

\* the globals a registry may hold: capture cards, other sources, a sink, a
\* device object
Catalog ==
  { Global(31, "Node", Some("Audio/Source"), Some("usb1"), None,
           Some(<<"b", "b">>), None),
    Global(32, "Node", Some("Audio/Source"), Some("usb2"), None,
           Some(<<"A", "b", "a">>), None),
    Global(33, "Node", Some("Audio/Source"), None, Some("usb1"),
           None, Some(<<"b">>)),
    Global(34, "Node", Some("Audio/Source/Virtual"), None, None,
           None, Some(<<"a", "B">>)),
    Global(35, "Node", Some("Audio/Sink"), Some("usb1"), None,
           Some(<<"a", "b">>), None),
    Global(36, "Device", None, Some("usb1"), None,
           Some(<<"a", "b">>), None) }

\* registries: up to MaxGlobals different globals in any order
MaxGlobals == 3
Distinct(seq) == \A i, j \in 1..Len(seq) : i # j => seq[i] # seq[j]
Registries == { r \in SeqsUpTo(Catalog, MaxGlobals) : Distinct(r) }

BusHints == {None, Some("usb1"), Some("")}
LabelHints == {None, Some(<< >>), Some(<<"a", "b">>),
               Some(<<"a", ":", "b">>)}

FindIdle ==
  /\ f_bus_path = None /\ f_label_hint = None
  /\ f_registry = << >> /\ f_next = 1
  /\ f_finder = SourceFinder(None, None)
  /\ f_pc = "idle" /\ f_expired = FALSE /\ f_result = None

FindUnchanged ==
  UNCHANGED <<sessVars, threadVars, callerVars, kernelVars,
              session_published, modeVars, yuvVars, audioVars, extraVars>>

\* find_source_node, lines 143-171: without hints, or when the temporary
\* loop, context or core cannot be created, nullopt is returned at once;
\* otherwise the finder listens to the registry and the deadline is set
FindBegin ==
  /\ f_pc = "idle"
  /\ IF (~Has(f_bus_path) \/ Val(f_bus_path) = "")
        /\ (~Has(f_label_hint) \/ Val(f_label_hint) = << >>)
     THEN f_pc' = "done" /\ f_result' = None /\ UNCHANGED f_finder
     ELSE \/ f_pc' = "done" /\ f_result' = None /\ UNCHANGED f_finder
          \/ /\ f_pc' = "scan"
             /\ f_finder' = SourceFinder(f_bus_path, f_label_hint)
             /\ UNCHANGED f_result
  /\ UNCHANGED <<f_bus_path, f_label_hint, f_registry, f_next, f_expired>>
  /\ FindUnchanged

\* the announcements n..m of the registry, given to the listener in order
RECURSIVE dispatch(_, _, _, _)
dispatch(finder, registry, n, m) ==
  IF n > m THEN finder
  ELSE dispatch(registry_global_cb(finder, registry[n]), registry, n + 1, m)

\* lines 172-176: one pw_loop_iterate of the scan loop dispatches the
\* globals that arrived (possibly none); the clock may pass the deadline
FindIterate ==
  /\ f_pc = "scan"
  /\ ~Has(f_finder.node_id) /\ ~f_expired
  /\ \E m \in (f_next - 1)..Len(f_registry) :
       /\ f_finder' = dispatch(f_finder, f_registry, f_next, m)
       /\ f_next' = m + 1
  /\ f_expired' \in BOOLEAN
  /\ UNCHANGED <<f_bus_path, f_label_hint, f_registry, f_pc, f_result>>
  /\ FindUnchanged

\* lines 174, 178-182: the loop condition fails; clean up and return
FindReturn ==
  /\ f_pc = "scan"
  /\ Has(f_finder.node_id) \/ f_expired
  /\ f_pc' = "done"
  /\ f_result' = f_finder.node_id
  /\ UNCHANGED <<f_bus_path, f_label_hint, f_registry, f_next, f_finder,
                 f_expired>>
  /\ FindUnchanged

----------------------------------------------------------------------------
(* PipeWireController, pipewire_controller.cpp lines 192-748 *)

kDefaultRate == 48000
kDefaultChannels == 2

\* spa_audio_info_raw: the fields the controller uses
Info(rate, channels) == [rate |-> rate, channels |-> channels]

\* Impl after PipeWireController::PipeWireController(), lines 196-213.
\* loop: a main loop is allocated; capture_stream: None or the stream with
\* the node it was connected to (None: PW_ID_ANY) and the format negotiated
\* (None: not yet); playback_stream: None or the stream with the format it
\* was connected with and whether the loop it was created on still exists;
\* thread: thread.joinable().  bus_path, description and the logging flags
\* do not influence any other member and are left out.
ImplInit ==
  [loop |-> FALSE, capture_stream |-> None, playback_stream |-> None,
   thread |-> FALSE, fifo |-> << >>, max_fifo_samples |-> 0,
   running |-> FALSE, node_id |-> None, resolved_node_id |-> None,
   rate |-> kDefaultRate, channels |-> kDefaultChannels,
   playback_ready |-> FALSE, fallback_route |-> FALSE]

Max(a, b) == IF a >= b THEN a ELSE b
Min(a, b) == IF a <= b THEN a ELSE b

\* while (fifo.size() > limit) fifo.pop_front()
drop_back(fifo, limit) ==
  IF Len(fifo) > limit
  THEN SubSeq(fifo, 1, limit)
  ELSE fifo

drop_front(fifo, limit) ==
  IF Len(fifo) > limit
  THEN SubSeq(fifo, Len(fifo) - limit + 1, Len(fifo))
  ELSE fifo

\* Impl::configure_from_format, lines 232-250 (kMaxBufferedSeconds is 1.0)
configure_from_format(impl, info) ==
  LET rate == IF info.rate > 0 THEN info.rate ELSE impl.rate
      channels == IF info.channels > 0 THEN info.channels ELSE impl.channels
      max_fifo_samples == rate * channels
  IN [impl EXCEPT !.rate = rate,
                  !.channels = channels,
                  !.max_fifo_samples = max_fifo_samples,
                  !.fifo = drop_front(impl.fifo, max_fifo_samples)]

\* Impl::destroy_playback_stream, lines 368-375, and lines 260-265
destroy_playback_stream(impl) ==
  IF Has(impl.playback_stream)
  THEN [impl EXCEPT !.playback_stream = None, !.playback_ready = FALSE]
  ELSE impl

\* Impl::ensure_playback_stream, lines 252-312.  outcome: "ok", or the call
\* that fails ("create": pw_stream_new_simple, "connect": pw_stream_connect)
ensure_playback_stream(impl, desired_rate, desired_channels, outcome) ==
  IF /\ Has(impl.playback_stream)
     /\ desired_rate = impl.rate
     /\ desired_channels = impl.channels
     /\ impl.playback_ready
  THEN [impl |-> impl, ok |-> TRUE]
  ELSE IF outcome # "ok"
  THEN [impl |-> destroy_playback_stream(impl), ok |-> FALSE]
  ELSE [impl |->
          [configure_from_format(
             [destroy_playback_stream(impl) EXCEPT
                !.playback_stream =
                   Some([info |-> Info(desired_rate, desired_channels),
                         loop_alive |-> TRUE])],
             Info(desired_rate, desired_channels))
           EXCEPT !.playback_ready = TRUE],
        ok |-> TRUE]

\* Impl::create_capture_stream, lines 314-358
create_capture_stream(impl, outcome) ==
  IF outcome # "ok"
  THEN [impl |-> [impl EXCEPT !.capture_stream = None], ok |-> FALSE]
  ELSE [impl |-> [impl EXCEPT !.capture_stream =
                    Some([target |-> impl.resolved_node_id,
                          format |-> None])],
        ok |-> TRUE]

\* the playback stream outlived the loop it was created on
Dangling(impl) ==
  Has(impl.playback_stream) /\ ~Val(impl.playback_stream).loop_alive

\* PipeWireController::stop, lines 693-718, called on the caller's thread:
\* the pump thread leaves loop_body and is joined.  Disconnecting a stream
\* whose loop was destroyed is undefined: ub says whether the process faults.
stop_keep_fifo(impl, peak, ub) ==
  IF Dangling(impl) /\ ub = "fault"
  THEN [impl |-> [impl EXCEPT !.running = FALSE,
                              !.thread = IF impl.running THEN FALSE ELSE @,
                              !.capture_stream = None],
        peak |-> peak, fault |-> TRUE]
  ELSE [impl |-> [destroy_playback_stream(impl) EXCEPT
                    !.running = FALSE,
                    !.thread = IF impl.running THEN FALSE ELSE @,
                    !.capture_stream = None,
                    !.loop = FALSE],
        peak |-> "zero", fault |-> FALSE]

stop(impl, peak, ub) ==
  IF Dangling(impl) /\ ub = "fault"
  THEN [impl |-> [impl EXCEPT !.running = FALSE,
                              !.thread = IF impl.running THEN FALSE ELSE @,
                              !.capture_stream = None],
        peak |-> peak, fault |-> TRUE]
  ELSE [impl |-> [destroy_playback_stream(impl) EXCEPT
                    !.running = FALSE,
                    !.thread = IF impl.running THEN FALSE ELSE @,
                    !.capture_stream = None,
                    !.loop = FALSE,
                    !.fifo = << >>],
        peak |-> "zero", fault |-> FALSE]

\* find_source_node, lines 143-187, as start() calls it: env.find_ok says
\* whether the temporary loop, context and core could be created, and the
\* first env.announced globals of env.registry arrive before the deadline
find_source_node(bus_path, label_hint, env) ==
  IF (~Has(bus_path) \/ Val(bus_path) = "")
     /\ (~Has(label_hint) \/ Val(label_hint) = << >>)
  THEN None
  ELSE IF ~env.find_ok THEN None
  ELSE dispatch(SourceFinder(bus_path, label_hint), env.registry, 1,
                env.announced).node_id

\* start(), lines 649-661: the node to connect to and the fallback flag
resolve_route_no_flag(node_id, found) ==
  [resolved |-> IF Has(node_id) THEN node_id ELSE found, fallback |-> FALSE]

resolve_route(node_id, found) ==
  IF Has(node_id) THEN [resolved |-> node_id, fallback |-> FALSE]
  ELSE IF Has(found) THEN [resolved |-> found, fallback |-> FALSE]
  ELSE [resolved |-> None, fallback |-> TRUE]

\* the arguments of start()
StartArgs(node_id, bus_path, description, channels, rate) ==
  [node_id |-> node_id, bus_path |-> bus_path, description |-> description,
   channels |-> channels, rate |-> rate]

\* PipeWireController::start, lines 622-691
start(impl, peak, args, env) ==
  LET stopped == stop(impl, peak, env.ub)
      found == IF Has(args.node_id) THEN None
               ELSE find_source_node(args.bus_path, args.description, env)
      route == resolve_route(args.node_id, found)
      reset == [stopped.impl EXCEPT
                  !.node_id = args.node_id,
                  !.channels = args.channels,
                  !.rate = args.rate,
                  !.fifo = << >>,
                  !.max_fifo_samples = args.rate * args.channels,
                  !.fallback_route = route.fallback,
                  !.resolved_node_id = route.resolved]
      playback == ensure_playback_stream([reset EXCEPT !.loop = TRUE],
                                         args.rate, args.channels,
                                         env.playback)
      capture == create_capture_stream(playback.impl, env.capture)
  IN IF stopped.fault
     THEN [impl |-> stopped.impl, peak |-> stopped.peak, fault |-> TRUE,
           ret |-> "none", found |-> None]
     ELSE IF ~env.loop_ok
     THEN [impl |-> reset, peak |-> stopped.peak, fault |-> FALSE,
           ret |-> "false", found |-> found]
     ELSE IF ~capture.ok
     THEN [impl |-> [capture.impl EXCEPT
                       !.loop = FALSE,
                       !.playback_stream =
                          IF Has(@)
                          THEN Some([Val(@) EXCEPT !.loop_alive = FALSE])
                          ELSE @],
           peak |-> stopped.peak, fault |-> FALSE,
           ret |-> "false", found |-> found]
     ELSE [impl |-> [capture.impl EXCEPT !.running = TRUE, !.thread = TRUE],
           peak |-> stopped.peak, fault |-> FALSE,
           ret |-> "true", found |-> found]

\* PipeWireController::is_running, lines 724-730
is_running == Has(impl_.capture_stream)

\* Impl::on_capture_param_changed, lines 393-417, for a parsed Format param
on_capture_param_changed(impl, info, outcome) ==
  [ensure_playback_stream(configure_from_format(impl, info),
                          info.rate, info.channels, outcome).impl
   EXCEPT !.capture_stream = Some([Val(@) EXCEPT !.format = Some(info)])]

\* one int16_t sample: its position in the capture stream and the format it
\* was captured in (its value is not modelled)
Sample(seq, rate, channels) ==
  [seq |-> seq, rate |-> rate, channels |-> channels]

\* lines 494-508: append the samples, then drop the oldest above the limit
fifo_push_unbounded(fifo, samples, max_fifo_samples) == fifo \o samples

fifo_push(fifo, samples, max_fifo_samples) ==
  IF Len(samples) > 0
  THEN drop_front(fifo \o samples,
                  Max(max_fifo_samples, Len(samples) * 4))
  ELSE fifo

\* Impl::on_capture_process, lines 449-511, for a dequeued buffer whose chunk
\* holds chunk_size bytes; captured: samples the stream delivered before
on_capture_process(impl, peak, chunk_size, captured) ==
  IF chunk_size = 0 THEN [impl |-> impl, peak |-> peak, pushed |-> 0]
  ELSE LET frame_size == 2 * impl.channels
           frames == chunk_size \div frame_size
           samples_to_push == frames * impl.channels
           samples == [i \in 1..samples_to_push |->
                         Sample(captured + i, impl.rate, impl.channels)]
       IN [impl |-> [impl EXCEPT !.fifo = fifo_push(@, samples,
                                                    impl.max_fifo_samples)],
           peak |-> IF samples_to_push = 0 THEN "nan" ELSE "rms",
           pushed |-> samples_to_push]

\* lines 559-578: the number of samples the playback callback writes
samples_needed(buffer, channels) ==
  LET frame_size == 2 * channels
      by_size == IF Has(buffer.chunk) /\ Val(buffer.chunk).size > 0
                 THEN Val(buffer.chunk).size \div frame_size
                 ELSE IF buffer.maxsize > 0
                 THEN buffer.maxsize \div frame_size
                 ELSE 0
      frames == IF by_size = 0 THEN 128 ELSE by_size
  IN frames * channels

\* lines 580-592: copy from the front of the FIFO, fill the rest with zeros
drain_keep(fifo, needed) ==
  [copied |-> SubSeq(fifo, 1, Min(needed, Len(fifo))),
   zeros |-> needed - Min(needed, Len(fifo)),
   fifo |-> fifo]

drain(fifo, needed) ==
  [copied |-> SubSeq(fifo, 1, Min(needed, Len(fifo))),
   zeros |-> needed - Min(needed, Len(fifo)),
   fifo |-> SubSeq(fifo, Min(needed, Len(fifo)) + 1, Len(fifo))]

\* lines 576-578: the int16_t samples that fit between out, which is
\* datas[0].data plus the chunk offset, and the end of the maxsize bytes
capacity(buffer) ==
  (buffer.maxsize
     - (IF Has(buffer.chunk) THEN Val(buffer.chunk).offset ELSE 0)) \div 2

NoOut == [copied |-> << >>, zeros |-> 0, written |-> FALSE, room |-> 0]

\* Impl::drain_to_playback, lines 542-601.  buffer: None when no buffer can
\* be dequeued, else the dequeued buffer (data: datas[0].data is not null)
drain_to_playback(impl, buffer) ==
  IF ~Has(impl.playback_stream) THEN [impl |-> impl, out |-> NoOut]
  ELSE IF ~Has(buffer) THEN [impl |-> impl, out |-> NoOut]
  ELSE IF ~Val(buffer).data THEN [impl |-> impl, out |-> NoOut]
  ELSE LET d == drain(impl.fifo,
                      samples_needed(Val(buffer), impl.channels))
       IN [impl |-> [impl EXCEPT !.fifo = d.fifo],
           out |-> [copied |-> d.copied, zeros |-> d.zeros,
                    written |-> TRUE, room |-> capacity(Val(buffer))]]

\* ---- inputs ----

\* formats given to start() and negotiated by the capture stream
Formats == {Info(kDefaultRate, kDefaultChannels), Info(5, 1), Info(1, 1)}
StartFormats == {Info(kDefaultRate, kDefaultChannels), Info(5, 1)}

\* what the PipeWire daemon answers during one start()
Outcomes == {"ok", "create", "connect"}
StartEnv(find_ok, registry, announced, loop_ok, playback, capture, ub) ==
  [find_ok |-> find_ok, registry |-> registry, announced |-> announced,
   loop_ok |-> loop_ok, playback |-> playback, capture |-> capture,
   ub |-> ub]

\* the registry start() scans: a source matching the description hint,
\* then the source on the hinted bus
AudioRegistry ==
  CHOOSE r \in Registries :
    /\ Len(r) = 2 /\ r[1].id = 32 /\ r[2].id = 31

\* the answers that make a difference for a start() with these arguments
\* from this state
StartEnvs(impl, args) ==
  { StartEnv(scan[1], AudioRegistry, scan[2], back[1], back[2], back[3], u) :
      scan \in IF ~Has(args.node_id)
                  /\ (Has(args.bus_path) \/ Has(args.description))
               THEN {<<FALSE, 0>>, <<TRUE, 0>>, <<TRUE, 2>>}
               ELSE {<<TRUE, 0>>},
      back \in {<<FALSE, "ok", "ok">>}
               \cup ({TRUE} \X {"ok", "connect"} \X Outcomes),
      u \in IF Dangling(impl) THEN {"fault", "proceed"} ELSE {"proceed"} }

\* the device hints MainWindow passes, part_006 lines 215-231
DeviceHints ==
  { <<None, None>>, <<Some("usb1"), Some(<<"a", "b">>)>>,
    <<None, Some(<<"b">>)>> }

\* the arguments of a caller that names the node itself
DirectArgs ==
  { StartArgs(Some(40), None, None, f.channels, f.rate) :
      f \in StartFormats }

UbOutcomes(impl) ==
  IF Dangling(impl) THEN {"fault", "proceed"} ELSE {"proceed"}

\* chunk sizes in bytes of the capture buffers, and the sink buffers
ChunkSizes == {0, 2, 4, 8}
SinkBuffer(data, chunk, maxsize) ==
  [data |-> data, chunk |-> chunk, maxsize |-> maxsize]
SinkBuffers ==
  { None, Some(SinkBuffer(FALSE, None, 0)),
    Some(SinkBuffer(TRUE, None, 0)),
    Some(SinkBuffer(TRUE, Some([size |-> 0, offset |-> 0]), 8)),
    Some(SinkBuffer(TRUE, Some([size |-> 0, offset |-> 0]), 2)),
    Some(SinkBuffer(TRUE, Some([size |-> 4, offset |-> 4]), 8)) }

\* samples the capture stream delivers in one run
MaxCaptured == 6

\* ---- actions ----

NoCall ==
  [name |-> "none", by_app |-> FALSE, ret |-> "none", found |-> None,
   loop_ok |-> TRUE, capture |-> "ok"]

AudioInit ==
  /\ impl_ = ImplInit
  /\ peak_level_ = "zero"
  /\ pw_out = NoOut
  /\ pw_captured = 0
  /\ pw_call = NoCall
  /\ pw_fault = FALSE
  /\ app_pc = "idle"
  /\ audio_using_fallback_ = FALSE

AudioUnchanged ==
  UNCHANGED <<sessVars, threadVars, callerVars, kernelVars,
              session_published, modeVars, yuvVars, findVars, extraVars>>

\* the controller holds nothing: as constructed or as stop() leaves it
Stopped(impl) ==
  /\ ~impl.loop /\ ~Has(impl.capture_stream) /\ ~Has(impl.playback_stream)
  /\ ~impl.running /\ ~impl.thread /\ impl.fifo = << >>

\* a call of start() with its effect on the controller
DoStart(args, env, by_app) ==
  \E r \in {start(impl_, peak_level_, args, env)} :
    /\ impl_' = r.impl
    /\ peak_level_' = r.peak
    /\ pw_fault' = r.fault
    /\ pw_call' = [name |-> "start", by_app |-> by_app, ret |-> r.ret,
                   found |-> r.found,
                   loop_ok |-> env.loop_ok,
                   capture |-> IF env.loop_ok THEN env.capture ELSE "ok"]
    /\ pw_out' = NoOut

\* a call of stop() with its effect on the controller
DoStop(ub, by_app) ==
  \E r \in {stop(impl_, peak_level_, ub)} :
    /\ impl_' = r.impl
    /\ peak_level_' = r.peak
    /\ pw_fault' = r.fault
    /\ pw_call' = [NoCall EXCEPT
                     !.name = "stop", !.by_app = by_app,
                     !.ret = IF r.fault THEN "none" ELSE "void"]
    /\ pw_out' = NoOut

\* a caller other than MainWindow calls start() with an explicit node id
CallAudioStart ==
  /\ ~pw_fault /\ app_pc = "idle"
  /\ \E args \in DirectArgs :
     \E env \in StartEnvs(impl_, args) : DoStart(args, env, FALSE)
  /\ UNCHANGED <<pw_captured, app_pc, audio_using_fallback_>>
  /\ AudioUnchanged

\* a caller other than MainWindow calls stop()
CallAudioStop ==
  /\ ~pw_fault /\ app_pc = "idle"
  /\ \E ub \in UbOutcomes(impl_) : DoStop(ub, FALSE)
  /\ UNCHANGED <<pw_captured, app_pc, audio_using_fallback_>>
  /\ AudioUnchanged

\* MainWindow::start_current_device, part_006 lines 164-204: without a
\* selected device, or when the capture session cannot start, audio is
\* stopped and the fallback indication cleared; else audio is started next
AppSwitchDevice ==
  /\ ~pw_fault /\ app_pc = "idle"
  /\ \E ub \in UbOutcomes(impl_) : DoStop(ub, TRUE)
  /\ \E capture_started \in BOOLEAN :
       IF capture_started /\ ~pw_fault'
       THEN app_pc' = "first" /\ UNCHANGED audio_using_fallback_
       ELSE /\ app_pc' = "idle"
            /\ audio_using_fallback_' =
                 IF pw_fault' THEN audio_using_fallback_ ELSE FALSE
  /\ UNCHANGED pw_captured
  /\ AudioUnchanged

\* part_006 lines 230-245: start(nullopt, bus_path, label); on success the
\* indication is used_fallback = false
AppStartMatched ==
  /\ ~pw_fault /\ app_pc = "first"
  /\ \E h \in DeviceHints :
     \E args \in {StartArgs(None, h[1], h[2], kDefaultChannels,
                             kDefaultRate)} :
     \E env \in StartEnvs(impl_, args) : DoStart(args, env, TRUE)
  /\ IF pw_call'.ret = "true"
     THEN app_pc' = "idle" /\ audio_using_fallback_' = FALSE
     ELSE /\ app_pc' = IF pw_fault' THEN "idle" ELSE "second"
          /\ UNCHANGED audio_using_fallback_
  /\ UNCHANGED pw_captured
  /\ AudioUnchanged

\* part_006 lines 232-245: used_fallback = true and start() with defaults
AppStartDefault ==
  /\ ~pw_fault /\ app_pc = "second"
  /\ \E args \in {StartArgs(None, None, None, kDefaultChannels,
                             kDefaultRate)} :
     \E env \in StartEnvs(impl_, args) : DoStart(args, env, TRUE)
  /\ app_pc' = "idle"
  /\ audio_using_fallback_' =
       IF pw_fault' THEN audio_using_fallback_
       ELSE (pw_call'.ret = "true")
  /\ UNCHANGED pw_captured
  /\ AudioUnchanged

\* the capture stream reports a negotiated format
CaptureParamChanged ==
  /\ ~pw_fault /\ impl_.running /\ Has(impl_.capture_stream)
  /\ \E info \in Formats, outcome \in {"ok", "connect"} :
       impl_' = on_capture_param_changed(impl_, info, outcome)
  /\ pw_out' = NoOut /\ pw_call' = NoCall
  /\ UNCHANGED <<peak_level_, pw_captured, pw_fault, app_pc,
                 audio_using_fallback_>>
  /\ AudioUnchanged

\* on_capture_state_changed, lines 377-391, which the loop runs on the pump
\* thread: the state PW_STREAM_STATE_ERROR calls outer.stop() there.
\* stop() (lines 693-718) finds running set and the thread joinable, so the
\* pump thread joins itself: std::thread::join then throws out of the C
\* callback or never returns, and nothing after the join runs
StreamStates == {"paused", "streaming", "error"}

on_capture_state_changed(impl, peak, state) ==
  IF state # "error"
  THEN [impl |-> impl, peak |-> peak, fault |-> FALSE]
  ELSE IF impl.running /\ impl.thread
  THEN [impl |-> [impl EXCEPT !.running = FALSE],
        peak |-> peak, fault |-> TRUE]
  ELSE stop(impl, peak, "ok")

\* the capture stream changes state while the loop runs
CaptureStateChanged ==
  /\ ~pw_fault /\ impl_.running /\ Has(impl_.capture_stream)
  /\ \E state \in StreamStates :
     \E r \in {on_capture_state_changed(impl_, peak_level_, state)} :
       /\ impl_' = r.impl
       /\ peak_level_' = r.peak
       /\ pw_fault' = r.fault
       /\ pw_call' = IF state = "error"
                     THEN [NoCall EXCEPT !.name = "capture_error"]
                     ELSE NoCall
  /\ pw_out' = NoOut
  /\ UNCHANGED <<pw_captured, app_pc, audio_using_fallback_>>
  /\ AudioUnchanged

\* the capture stream has a buffer ready
CaptureProcess ==
  /\ ~pw_fault /\ impl_.running /\ Has(impl_.capture_stream)
  /\ \E chunk_size \in ChunkSizes :
     \E r \in {on_capture_process(impl_, peak_level_, chunk_size,
                                  pw_captured)} :
       /\ pw_captured + r.pushed <= MaxCaptured
       /\ impl_' = r.impl
       /\ peak_level_' = r.peak
       /\ pw_captured' = pw_captured + r.pushed
  /\ pw_out' = NoOut /\ pw_call' = NoCall
  /\ UNCHANGED <<pw_fault, app_pc, audio_using_fallback_>>
  /\ AudioUnchanged

\* the playback stream asks for data
PlaybackProcess ==
  /\ ~pw_fault /\ impl_.running /\ Has(impl_.playback_stream)
  /\ \E buffer \in SinkBuffers :
     \E r \in {drain_to_playback(impl_, buffer)} :
       /\ impl_' = r.impl
       /\ pw_out' = r.out
  /\ pw_call' = NoCall
  /\ UNCHANGED <<peak_level_, pw_captured, pw_fault, app_pc,
                 audio_using_fallback_>>
  /\ AudioUnchanged

----------------------------------------------------------------------------
(* Specifications *)

DefaultWidth == 1280
DefaultHeight == 720

\* the members after CaptureSession::CaptureSession() (capture_session.hpp)
InitSession ==
  /\ device_path_ = 0
  /\ preset_ = "UltraLow"
  /\ latest_frame_ = ZeroFrame
  /\ frame_ready_ = FALSE
  /\ worker_ = FALSE
  /\ running_ = FALSE
  /\ fd_ = -1
  /\ width_ = DefaultWidth
  /\ height_ = DefaultHeight
  /\ buffers_ = << >>
  /\ tpc = "none" /\ t_buf = NoBuf /\ t_frame = ZeroFrame /\ t_exit = "none"
  /\ t_err = NoErr
  /\ stack = << >> /\ curOp = NoOp /\ ret = "none"
  /\ oplog = << >> /\ cfg = NoCfg
  /\ crashed = FALSE
  /\ k_open = 0 /\ k_maps = 0 /\ k_queued = {} /\ k_streaming = FALSE
  /\ session_published = FALSE

\* capture_device.hpp line 71: float gain_{1.0f}; no access in progress
GainIdle ==
  /\ gain_ = "1.0"
  /\ ui_access = << >> /\ cb_access = << >>
  /\ cb_pc = "idle" /\ cb_gain = "1.0" /\ ui_seen = << >>

\* DeviceMonitor::DeviceMonitor, part_005 lines 9-13: running_ is set and
\* the watcher thread started; nothing was received yet
MonConstructed ==
  /\ dm_thread_ = TRUE /\ dm_running_ = TRUE
  /\ dm_pc = "udev_new" /\ dm_select = "none" /\ dm_device = << >>
  /\ dm_socket = << >> /\ dm_next = 1
  /\ dm_received = << >> /\ dm_called = << >>
  /\ dm_dtor = "alive"

MonIdle ==
  /\ dm_callback_ = TRUE
  /\ MonConstructed

\* enumerate_devices entered with an empty /dev, lines 30-32
EnumEntered ==
  /\ en_pc = "scan" /\ en_nodes = << >> /\ en_idx = 1
  /\ en_devices = << >> /\ en_opened = 0 /\ en_closed = 0

EnumIdle ==
  /\ en_dir = << >>
  /\ EnumEntered

\* a Frame whose members were all written by publish n
FrameOf(n) == [dims |-> n, rgb |-> n, times |-> n]

\* part_004 lines 59-61: the snapshot as constructed, nobody in a call
FrameIdle ==
  /\ frame_mutex_ = "none"
  /\ fr_latest = FrameOf(0) /\ fr_ready = FALSE
  /\ fr_built = 0 /\ fr_published = 0
  /\ fr_tpc = "idle" /\ fr_rpc = "idle"
  /\ fr_copy = FrameOf(0) /\ fr_seen = 0 /\ fr_result = << >>

\* no thread pool exists
PoolIdle ==
  /\ tasks_ = << >> /\ stopping_ = FALSE
  /\ tp_workers = << >> /\ tp_main = "idle"
  /\ tp_enqueued = 0 /\ tp_runs = << >> /\ tp_joined = 0

ExtraIdle ==
  /\ GainIdle
  /\ MonIdle
  /\ EnumIdle
  /\ FrameIdle
  /\ PoolIdle

ModeIdle ==
  /\ m_enum = << >> /\ m_idx = 1
  /\ m_best = BestInit(DefaultWidth, DefaultHeight)

Init ==
  /\ InitSession
  /\ ModeIdle
  /\ YuvIdle
  /\ FindIdle
  /\ AudioInit
  /\ ExtraIdle

Next ==
  \/ CallStop
  \/ \E path \in Paths, preset \in Presets : CallStart(path, preset)
  \/ \E preset \in Presets : CallSetLatencyPreset(preset)
  \/ StopCheck
  \/ StopJoin
  \/ StartBody
  \/ ThreadLoop
  \/ ThreadPoll
  \/ ThreadDqbuf
  \/ ThreadPublish
  \/ ThreadQbuf
  \/ ThreadExit

Spec == Init /\ [][Next]_vars

\* One step of the capture thread (streaming_loop, lines 317-385).
ThreadStep ==
  \/ ThreadLoop
  \/ ThreadPoll
  \/ ThreadDqbuf
  \/ ThreadPublish
  \/ ThreadQbuf
  \/ ThreadExit

\* The session under fair scheduling: a capture thread that can take a step
\* eventually takes one (poll() returns after 500 ms at the latest, the
\* descriptor is O_NONBLOCK so VIDIOC_DQBUF does not block), and join()
\* returns once the thread function has returned.
SpecLive == Init /\ [][Next]_vars /\ WF_vars(ThreadStep) /\ WF_vars(StopJoin)

\* the enumeration loops of configure_device process the next driver answer
ModeStep ==
  /\ m_idx <= Len(m_enum)
  /\ m_best' = enum_body(m_best, m_enum[m_idx])
  /\ m_idx' = m_idx + 1
  /\ UNCHANGED <<m_enum, sessVars, threadVars, callerVars, kernelVars,
                 session_published, yuvVars, findVars, audioVars,
                 extraVars>>

InitMode ==
  /\ InitSession
  /\ m_enum \in SeqsUpTo(CandSet, MaxCands)
  /\ m_idx = 1
  /\ m_best = BestInit(DefaultWidth, DefaultHeight)
  /\ YuvIdle
  /\ FindIdle
  /\ AudioInit
  /\ ExtraIdle

NextMode == ModeStep

SpecMode == InitMode /\ [][NextMode]_vars

InitYuv ==
  /\ InitSession
  /\ ModeIdle
  /\ y_width \in Widths /\ y_height \in Heights
  /\ y_src \in [1..4 -> ByteSamples]
  /\ y_dst = << >>
  /\ ConvIdle
  /\ FindIdle
  /\ AudioInit
  /\ ExtraIdle

NextYuv == YuvConvert

SpecYuv == InitYuv /\ [][NextYuv]_vars

\* yuyv_to_rgb called by the capture thread (lines 352-369) for an image of
\* y_width x y_height pixels whose groups all hold the same bytes
InitConv ==
  /\ InitSession
  /\ ModeIdle
  /\ y_width \in 1..MaxDim /\ y_height \in 1..MaxDim
  /\ y_src = <<235, 128, 16, 128>> /\ y_dst = << >>
  /\ y_pc = "loop" /\ y_i = 0 /\ y_read = 0 /\ y_written = 0
  /\ FindIdle
  /\ AudioInit
  /\ ExtraIdle

NextConv ==
  \/ ConvGroup
  \/ ConvReturn

SpecConv == InitConv /\ [][NextConv]_vars

InitFind ==
  /\ InitSession
  /\ ModeIdle
  /\ YuvIdle
  /\ f_bus_path \in BusHints
  /\ f_label_hint \in LabelHints
  /\ f_registry \in Registries
  /\ f_next = 1
  /\ f_finder = SourceFinder(None, None)
  /\ f_pc = "idle" /\ f_expired = FALSE /\ f_result = None
  /\ AudioInit
  /\ ExtraIdle

NextFind ==
  \/ FindBegin
  \/ FindIterate
  \/ FindReturn

SpecFind == InitFind /\ [][NextFind]_vars

\* lines 172-176: an iteration of the scan loop after which the steady
\* clock has passed the deadline
FindExpire == FindIterate /\ f_expired'

\* find_source_node under fair scheduling: the function takes its steps,
\* and since pw_loop_iterate(loop_api, 50) returns after 50 ms at the latest
\* the steady clock passes the 400 ms deadline after finitely many
\* iterations.
SpecFindLive ==
  /\ InitFind /\ [][NextFind]_vars
  /\ WF_vars(FindBegin) /\ WF_vars(FindExpire) /\ WF_vars(FindReturn)

InitAudio ==
  /\ InitSession
  /\ ModeIdle
  /\ YuvIdle
  /\ FindIdle
  /\ AudioInit
  /\ ExtraIdle

NextAudio ==
  \/ CallAudioStart
  \/ CallAudioStop
  \/ AppSwitchDevice
  \/ AppStartMatched
  \/ AppStartDefault
  \/ CaptureParamChanged
  \/ CaptureStateChanged
  \/ CaptureProcess
  \/ PlaybackProcess

SpecAudio == InitAudio /\ [][NextAudio]_vars

-----------------------------------------------------------------------------
(* gain_ and peak_level_ between the interface thread and the pump thread,
   capture_device.hpp lines 57-71, pipewire_controller.cpp lines 477-492
   and 720-722.  Every read and write is an interval with a begin and an
   end step, so that accesses of the two threads can overlap. *)

GainValues == {"1.0", "0.5", "2.0"}

\* capture_device.hpp lines 70-71: std::atomic<float> peak_level_;
\* float gain_
IsAtomic(var) == var = "peak_level_"

Access(var, kind, value) == [var |-> var, kind |-> kind, value |-> value]

\* two accesses conflict when they touch the same variable and one writes
Conflict(a, b) ==
  /\ Has(a) /\ Has(b)
  /\ Val(a).var = Val(b).var
  /\ (Val(a).kind = "write" \/ Val(b).kind = "write")

\* a data race: conflicting accesses of the two threads overlap and the
\* variable is not atomic
Race == Conflict(ui_access, cb_access) /\ ~IsAtomic(Val(ui_access).var)

\* the values a read of gain_ may yield: the stored value, or anything when
\* the other thread is writing the plain float meanwhile
gain_read(other) ==
  IF Conflict(Some(Access("gain_", "read", "none")), other)
  THEN GainValues ELSE {gain_}

\* the values an atomic load of peak_level_ may yield: the stored value, or
\* the value of a store in progress
peak_read(other) ==
  IF Conflict(Some(Access("peak_level_", "read", "none")), other)
  THEN {peak_level_, Val(other).value} ELSE {peak_level_}

GainAudioUnchanged ==
  UNCHANGED <<sessVars, threadVars, callerVars, kernelVars,
              session_published, modeVars, yuvVars, findVars,
              impl_, pw_out, pw_captured, pw_call, pw_fault, app_pc,
              audio_using_fallback_, monVars, enumVars, frameVars, poolVars>>

\* the interface thread starts the controller
GainStart ==
  /\ ~Has(ui_access)
  /\ CallAudioStart

\* the interface thread stops the controller: stop() joins the pump
\* thread, which finishes the callback it is in
GainStop ==
  /\ ~Has(ui_access) /\ cb_pc = "idle"
  /\ CallAudioStop

\* PipeWireController::set_gain, lines 720-722: gain_ = gain
SetGainBegin ==
  /\ ~pw_fault /\ ~Has(ui_access)
  /\ \E gain \in GainValues :
       ui_access' = Some(Access("gain_", "write", gain))
  /\ UNCHANGED <<gain_, peak_level_, cb_access, cb_pc, cb_gain, ui_seen>>
  /\ GainAudioUnchanged

SetGainEnd ==
  /\ Has(ui_access) /\ Val(ui_access).var = "gain_"
  /\ Val(ui_access).kind = "write"
  /\ gain_' = Val(ui_access).value
  /\ ui_access' = None
  /\ UNCHANGED <<peak_level_, cb_access, cb_pc, cb_gain, ui_seen>>
  /\ GainAudioUnchanged

\* PipeWireController::gain, capture_device.hpp line 58: return gain_
GainBegin ==
  /\ ~pw_fault /\ ~Has(ui_access)
  /\ ui_access' = Some(Access("gain_", "read", "none"))
  /\ UNCHANGED <<gain_, peak_level_, cb_access, cb_pc, cb_gain, ui_seen>>
  /\ GainAudioUnchanged

GainEnd ==
  /\ Has(ui_access) /\ Val(ui_access).var = "gain_"
  /\ Val(ui_access).kind = "read"
  /\ \E v \in gain_read(cb_access) : ui_seen' = Some(v)
  /\ ui_access' = None
  /\ UNCHANGED <<gain_, peak_level_, cb_access, cb_pc, cb_gain>>
  /\ GainAudioUnchanged

\* PipeWireController::peak_level, capture_device.hpp line 64:
\* return peak_level_.load()
PeakLevelBegin ==
  /\ ~pw_fault /\ ~Has(ui_access)
  /\ ui_access' = Some(Access("peak_level_", "read", "none"))
  /\ UNCHANGED <<gain_, peak_level_, cb_access, cb_pc, cb_gain, ui_seen>>
  /\ GainAudioUnchanged

PeakLevelEnd ==
  /\ Has(ui_access) /\ Val(ui_access).var = "peak_level_"
  /\ \E v \in peak_read(cb_access) : ui_seen' = Some(v)
  /\ ui_access' = None
  /\ UNCHANGED <<gain_, peak_level_, cb_access, cb_pc, cb_gain>>
  /\ GainAudioUnchanged

\* on_capture_process, line 477, on the pump thread:
\* float gain = self->outer.gain_
CbGainBegin ==
  /\ ~pw_fault /\ impl_.running /\ Has(impl_.capture_stream)
  /\ cb_pc = "idle"
  /\ cb_pc' = "gain"
  /\ cb_access' = Some(Access("gain_", "read", "none"))
  /\ UNCHANGED <<gain_, peak_level_, ui_access, cb_gain, ui_seen>>
  /\ GainAudioUnchanged

CbGainEnd ==
  /\ cb_pc = "gain" /\ Has(cb_access)
  /\ \E v \in gain_read(ui_access) : cb_gain' = v
  /\ cb_access' = None
  /\ cb_pc' = "peak"
  /\ UNCHANGED <<gain_, peak_level_, ui_access, ui_seen>>
  /\ GainAudioUnchanged

\* on_capture_process, lines 486-492: the level of the scaled samples is
\* stored; with no complete frame in the buffer the quotient is 0.0 / 0
CbPeakBegin ==
  /\ cb_pc = "peak" /\ ~Has(cb_access)
  /\ \E frames \in {0, 1} :
       cb_access' = Some(Access("peak_level_", "write",
                                IF frames = 0 THEN "nan" ELSE "rms"))
  /\ UNCHANGED <<gain_, peak_level_, ui_access, cb_pc, cb_gain, ui_seen>>
  /\ GainAudioUnchanged

CbPeakEnd ==
  /\ cb_pc = "peak" /\ Has(cb_access)
  /\ peak_level_' = Val(cb_access).value
  /\ cb_access' = None
  /\ cb_pc' = "idle"
  /\ UNCHANGED <<gain_, ui_access, cb_gain, ui_seen>>
  /\ GainAudioUnchanged

InitGain ==
  /\ InitSession
  /\ ModeIdle
  /\ YuvIdle
  /\ FindIdle
  /\ AudioInit
  /\ GainIdle
  /\ MonIdle
  /\ EnumIdle
  /\ FrameIdle
  /\ PoolIdle

NextGain ==
  \/ GainStart
  \/ GainStop
  \/ SetGainBegin
  \/ SetGainEnd
  \/ GainBegin
  \/ GainEnd
  \/ PeakLevelBegin
  \/ PeakLevelEnd
  \/ CbGainBegin
  \/ CbGainEnd
  \/ CbPeakBegin
  \/ CbPeakEnd

SpecGain == InitGain /\ [][NextGain]_vars

-----------------------------------------------------------------------------
(* DeviceMonitor, part_005 (device_monitor.cpp) and device_monitor.hpp *)

\* the most events the kernel posts in a run
MaxEvents == 3

\* an event on the netlink socket; device says whether
\* udev_monitor_receive_device returns a device for it or NULL
Event(id, device) == [id |-> id, device |-> device]

\* run(), lines 54-65: callback_ is invoked when a device was received and
\* a callable is registered
invokes_always(device, callback) == callback

invokes(device, callback) == Has(device) /\ callback

\* ~DeviceMonitor, lines 17-19: thread_.join() returns when run() has
\* returned
join_returns_at_once(pc) == TRUE

join_returns(pc) == pc = "done"

MonUnchanged ==
  UNCHANGED <<sessVars, threadVars, callerVars, kernelVars,
              session_published, modeVars, yuvVars, findVars, audioVars,
              gainVars, enumVars, frameVars, poolVars>>

\* the kernel posts a video4linux event while the monitor is receiving
\* (lines 38-40: the subsystem filter is installed before receiving starts)
EventArrives ==
  /\ dm_pc \in {"loop", "select", "receive", "dispatch", "callback"}
  /\ dm_next <= MaxEvents
  /\ \E device \in BOOLEAN :
       dm_socket' = Append(dm_socket, Event(dm_next, device))
  /\ dm_next' = dm_next + 1
  /\ UNCHANGED <<dm_callback_, dm_thread_, dm_running_, dm_pc, dm_select,
                 dm_device, dm_received, dm_called, dm_dtor>>
  /\ MonUnchanged

\* run(), lines 24-28: udev_new()
RunUdevNew ==
  /\ dm_pc = "udev_new"
  /\ \E ok \in BOOLEAN : dm_pc' = IF ok THEN "monitor_new" ELSE "done"
  /\ UNCHANGED <<dm_callback_, dm_thread_, dm_running_, dm_select,
                 dm_device, dm_socket, dm_next, dm_received, dm_called,
                 dm_dtor>>
  /\ MonUnchanged

\* run(), lines 30-42: the monitor is created, filtered and enabled
RunMonitorNew ==
  /\ dm_pc = "monitor_new"
  /\ \E ok \in BOOLEAN : dm_pc' = IF ok THEN "loop" ELSE "done"
  /\ UNCHANGED <<dm_callback_, dm_thread_, dm_running_, dm_select,
                 dm_device, dm_socket, dm_next, dm_received, dm_called,
                 dm_dtor>>
  /\ MonUnchanged

\* run(), line 44: while (running_); lines 70-71 after the loop
RunLoop ==
  /\ dm_pc = "loop"
  /\ dm_pc' = IF dm_running_ THEN "select" ELSE "done"
  /\ UNCHANGED <<dm_callback_, dm_thread_, dm_running_, dm_select,
                 dm_device, dm_socket, dm_next, dm_received, dm_called,
                 dm_dtor>>
  /\ MonUnchanged

\* run(), lines 45-54: select() with a timeout of one second returns
\* readable when an event is queued, and otherwise times out or fails
RunSelect ==
  /\ dm_pc = "select"
  /\ IF dm_socket # << >>
     THEN dm_select' = "ready" /\ dm_pc' = "receive"
     ELSE dm_select' = "timeout" /\ dm_pc' = "loop"
  /\ UNCHANGED <<dm_callback_, dm_thread_, dm_running_, dm_device,
                 dm_socket, dm_next, dm_received, dm_called, dm_dtor>>
  /\ MonUnchanged

\* run(), line 55: udev_monitor_receive_device takes the event off the
\* socket and returns its device or NULL
RunReceive ==
  /\ dm_pc = "receive"
  /\ dm_socket' = Tail(dm_socket)
  /\ IF Head(dm_socket).device
     THEN /\ dm_device' = Some(Head(dm_socket).id)
          /\ dm_received' = Append(dm_received, Head(dm_socket).id)
     ELSE dm_device' = None /\ UNCHANGED dm_received
  /\ dm_pc' = "dispatch"
  /\ UNCHANGED <<dm_callback_, dm_thread_, dm_running_, dm_select,
                 dm_next, dm_called, dm_dtor>>
  /\ MonUnchanged

\* run(), lines 56-64: with a device, callback_() is entered
RunDispatch ==
  /\ dm_pc = "dispatch"
  /\ IF invokes(dm_device, dm_callback_)
     THEN /\ dm_called' = Append(dm_called,
                                 IF Has(dm_device) THEN Val(dm_device) ELSE 0)
          /\ dm_pc' = "callback"
          /\ UNCHANGED dm_device
     ELSE /\ dm_pc' = "loop" /\ dm_device' = None
          /\ UNCHANGED dm_called
  /\ UNCHANGED <<dm_callback_, dm_thread_, dm_running_, dm_select,
                 dm_socket, dm_next, dm_received, dm_dtor>>
  /\ MonUnchanged

\* run(), lines 62-65: callback_() returns and the device is released
RunCallbackReturn ==
  /\ dm_pc = "callback"
  /\ dm_pc' = "loop" /\ dm_device' = None
  /\ UNCHANGED <<dm_callback_, dm_thread_, dm_running_, dm_select,
                 dm_socket, dm_next, dm_received, dm_called, dm_dtor>>
  /\ MonUnchanged

\* ~DeviceMonitor, lines 15-17: running_ = false, then thread_.joinable()
DtorBegin ==
  /\ dm_dtor = "alive"
  /\ dm_running_' = FALSE
  /\ dm_dtor' = IF dm_thread_ THEN "joining" ELSE "returned"
  /\ UNCHANGED <<dm_callback_, dm_thread_, dm_pc, dm_select, dm_device,
                 dm_socket, dm_next, dm_received, dm_called>>
  /\ MonUnchanged

\* ~DeviceMonitor, lines 18-20: thread_.join() returns
DtorJoin ==
  /\ dm_dtor = "joining"
  /\ join_returns(dm_pc)
  /\ dm_thread_' = FALSE
  /\ dm_dtor' = "returned"
  /\ UNCHANGED <<dm_callback_, dm_running_, dm_pc, dm_select, dm_device,
                 dm_socket, dm_next, dm_received, dm_called>>
  /\ MonUnchanged

InitMonitor ==
  /\ InitSession
  /\ ModeIdle
  /\ YuvIdle
  /\ FindIdle
  /\ AudioInit
  /\ GainIdle
  /\ dm_callback_ \in BOOLEAN
  /\ MonConstructed
  /\ EnumIdle
  /\ FrameIdle
  /\ PoolIdle

NextMonitor ==
  \/ EventArrives
  \/ RunUdevNew
  \/ RunMonitorNew
  \/ RunLoop
  \/ RunSelect
  \/ RunReceive
  \/ RunDispatch
  \/ RunCallbackReturn
  \/ DtorBegin
  \/ DtorJoin

SpecMonitor == InitMonitor /\ [][NextMonitor]_vars

-----------------------------------------------------------------------------
(* enumerate_devices, capture_device.cpp lines 30-92 *)

\* the most entries /dev holds in a run
MaxDevNodes == 3

\* a file name: its stem and the digits that follow, "video10" being
\* NodeName("video", <<1, 0>>)
NodeName(stem, digits) == [stem |-> stem, digits |-> digits]

NodeNames ==
  {NodeName("video", <<1>>), NodeName("video", <<1, 0>>),
   NodeName("video", <<2>>), NodeName("vbi", <<0>>)}

\* what a directory entry is and how its driver answers:
\*   "not_char"        no character file
\*   "open_fails"      open() fails
\*   "querycap_fails"  VIDIOC_QUERYCAP fails
\*   "plain"           no video capture capability
\*   "capture"         video capture, VIDIOC_EXPBUF fails
\*   "capture_dmabuf"  video capture, VIDIOC_EXPBUF returns a descriptor
NodeKinds ==
  {"not_char", "open_fails", "querycap_fails", "plain", "capture",
   "capture_dmabuf"}

DirEntry(name, kind) == [name |-> name, kind |-> kind]

\* the directories: up to MaxDevNodes entries with distinct names, in any
\* order
Dirs ==
  UNION {{d \in [1..n -> {DirEntry(name, kind) :
                            name \in NodeNames, kind \in NodeKinds}] :
            \A i, j \in 1..n : i # j => d[i].name # d[j].name} :
         n \in 0..MaxDevNodes}

\* lines 33-40: character files whose name starts with "video"
is_video_node(entry) ==
  entry.kind # "not_char" /\ entry.name.stem = "video"

\* operator< of two paths in /dev with the same stem: the file names are
\* compared character by character, a proper prefix being smaller
RECURSIVE digits_less(_, _)
digits_less(a, b) ==
  IF b = << >> THEN FALSE
  ELSE IF a = << >> THEN TRUE
  ELSE IF Head(a) # Head(b) THEN Head(a) < Head(b)
  ELSE digits_less(Tail(a), Tail(b))

path_less(a, b) == digits_less(a.name.digits, b.name.digits)

\* line 42: std::sort(nodes.begin(), nodes.end())
RECURSIVE insert_sorted(_, _)
insert_sorted(sorted, node) ==
  IF sorted = << >> THEN <<node>>
  ELSE IF path_less(node, Head(sorted)) THEN <<node>> \o sorted
  ELSE <<Head(sorted)>> \o insert_sorted(Tail(sorted), node)

RECURSIVE sort(_)
sort(nodes) ==
  IF nodes = << >> THEN << >>
  ELSE insert_sorted(sort(Tail(nodes)), Head(nodes))

CaptureDevice(node) ==
  [path |-> node.name,
   has_formats |-> node.kind \in {"capture", "capture_dmabuf"},
   supports_dma_buf |-> node.kind = "capture_dmabuf"]

\* the body of the loop over nodes, lines 44-90: the record the node
\* contributes (optional) and the descriptors opened and closed
inspect_keep_open(node) ==
  IF node.kind = "open_fails"
  THEN [device |-> None, opened |-> 0, closed |-> 0]
  ELSE IF node.kind = "querycap_fails"
  THEN [device |-> None, opened |-> 1, closed |-> 0]
  ELSE IF node.kind = "capture_dmabuf"
  THEN [device |-> Some(CaptureDevice(node)), opened |-> 2, closed |-> 2]
  ELSE [device |-> Some(CaptureDevice(node)), opened |-> 1, closed |-> 1]

inspect(node) ==
  IF node.kind = "open_fails"
  THEN [device |-> None, opened |-> 0, closed |-> 0]
  ELSE IF node.kind = "querycap_fails"
  THEN [device |-> None, opened |-> 1, closed |-> 1]
  ELSE IF node.kind = "capture_dmabuf"
  THEN [device |-> Some(CaptureDevice(node)), opened |-> 2, closed |-> 2]
  ELSE [device |-> Some(CaptureDevice(node)), opened |-> 1, closed |-> 1]

EnumUnchanged ==
  UNCHANGED <<sessVars, threadVars, callerVars, kernelVars,
              session_published, modeVars, yuvVars, findVars, audioVars,
              gainVars, monVars, frameVars, poolVars>>

\* lines 33-41: the directory is read
EnumScan ==
  /\ en_pc = "scan"
  /\ en_nodes' = SelectSeq(en_dir, is_video_node)
  /\ en_pc' = "sort"
  /\ UNCHANGED <<en_dir, en_idx, en_devices, en_opened, en_closed>>
  /\ EnumUnchanged

\* line 42
EnumSort ==
  /\ en_pc = "sort"
  /\ en_nodes' = sort(en_nodes)
  /\ en_pc' = "inspect"
  /\ UNCHANGED <<en_dir, en_idx, en_devices, en_opened, en_closed>>
  /\ EnumUnchanged

\* lines 44-90: one iteration of the loop over nodes
EnumInspect ==
  /\ en_pc = "inspect" /\ en_idx <= Len(en_nodes)
  /\ \E r \in {inspect(en_nodes[en_idx])} :
       /\ en_devices' = IF Has(r.device)
                        THEN Append(en_devices, Val(r.device))
                        ELSE en_devices
       /\ en_opened' = en_opened + r.opened
       /\ en_closed' = en_closed + r.closed
  /\ en_idx' = en_idx + 1
  /\ UNCHANGED <<en_dir, en_pc, en_nodes>>
  /\ EnumUnchanged

\* line 91: return devices
EnumReturn ==
  /\ en_pc = "inspect" /\ en_idx > Len(en_nodes)
  /\ en_pc' = "returned"
  /\ UNCHANGED <<en_dir, en_nodes, en_idx, en_devices, en_opened,
                 en_closed>>
  /\ EnumUnchanged

InitEnum ==
  /\ InitSession
  /\ ModeIdle
  /\ YuvIdle
  /\ FindIdle
  /\ AudioInit
  /\ GainIdle
  /\ MonIdle
  /\ en_dir \in Dirs
  /\ EnumEntered
  /\ FrameIdle
  /\ PoolIdle

NextEnum ==
  \/ EnumScan
  \/ EnumSort
  \/ EnumInspect
  \/ EnumReturn

SpecEnum == InitEnum /\ [][NextEnum]_vars

-----------------------------------------------------------------------------
(* The frame snapshot between streaming_loop and latest_frame(),
   capture_session.cpp lines 96-102 and 348-375, one member group at a
   time: the move assignment and the copy of a Frame (part_004 lines 18-25)
   write width/height/stride, then rgb, then the two timestamps. *)

\* the most frames the capture thread builds in a run
MaxFrames == 3

\* std::lock_guard<std::mutex>: the constructor returns when nobody holds
\* the mutex
can_lock_unguarded(holder) == TRUE

can_lock(holder) == holder = "none"

FrameUnchanged ==
  UNCHANGED <<sessVars, threadVars, callerVars, kernelVars,
              session_published, modeVars, yuvVars, findVars, audioVars,
              gainVars, monVars, enumVars, poolVars>>

\* streaming_loop, lines 348-369: the next frame is built in a local
FrBuild ==
  /\ fr_tpc = "idle" /\ fr_built < MaxFrames
  /\ fr_built' = fr_built + 1
  /\ fr_tpc' = "built"
  /\ UNCHANGED <<frame_mutex_, fr_latest, fr_ready, fr_published, fr_rpc,
                 fr_copy, fr_seen, fr_result>>
  /\ FrameUnchanged

\* line 372: std::lock_guard lock(frame_mutex_)
FrLock ==
  /\ fr_tpc = "built" /\ can_lock(frame_mutex_)
  /\ frame_mutex_' = "thread"
  /\ fr_tpc' = "dims"
  /\ UNCHANGED <<fr_latest, fr_ready, fr_built, fr_published, fr_rpc,
                 fr_copy, fr_seen, fr_result>>
  /\ FrameUnchanged

\* line 373: latest_frame_ = std::move(frame), member by member
FrMove ==
  /\ fr_tpc \in {"dims", "rgb", "times"}
  /\ fr_latest' = [fr_latest EXCEPT ![fr_tpc] = fr_built]
  /\ fr_tpc' = CASE fr_tpc = "dims" -> "rgb"
                  [] fr_tpc = "rgb" -> "times"
                  [] fr_tpc = "times" -> "ready"
  /\ UNCHANGED <<frame_mutex_, fr_ready, fr_built, fr_published, fr_rpc,
                 fr_copy, fr_seen, fr_result>>
  /\ FrameUnchanged

\* line 374: frame_ready_ = true
FrSetReady ==
  /\ fr_tpc = "ready"
  /\ fr_ready' = TRUE
  /\ fr_published' = fr_built
  /\ fr_tpc' = "unlock"
  /\ UNCHANGED <<frame_mutex_, fr_latest, fr_built, fr_rpc, fr_copy,
                 fr_seen, fr_result>>
  /\ FrameUnchanged

\* line 375: the guard leaves scope
FrUnlock ==
  /\ fr_tpc = "unlock"
  /\ frame_mutex_' = "none"
  /\ fr_tpc' = "idle"
  /\ UNCHANGED <<fr_latest, fr_ready, fr_built, fr_published, fr_rpc,
                 fr_copy, fr_seen, fr_result>>
  /\ FrameUnchanged

\* latest_frame(), line 97: std::lock_guard lock(frame_mutex_)
RdLock ==
  /\ fr_rpc \in {"idle", "returned"} /\ can_lock(frame_mutex_)
  /\ frame_mutex_' = "reader"
  /\ fr_rpc' = "check"
  /\ UNCHANGED <<fr_latest, fr_ready, fr_built, fr_published, fr_tpc,
                 fr_copy, fr_seen, fr_result>>
  /\ FrameUnchanged

\* lines 98-100: if (!frame_ready_) return std::nullopt
RdCheck ==
  /\ fr_rpc = "check"
  /\ fr_seen' = fr_published
  /\ fr_rpc' = IF fr_ready THEN "dims" ELSE "unlock"
  /\ fr_result' = None
  /\ UNCHANGED <<frame_mutex_, fr_latest, fr_ready, fr_built,
                 fr_published, fr_tpc, fr_copy>>
  /\ FrameUnchanged

\* line 101: return latest_frame_, copied member by member into the result
RdCopy ==
  /\ fr_rpc \in {"dims", "rgb", "times"}
  /\ fr_copy' = [fr_copy EXCEPT ![fr_rpc] = fr_latest[fr_rpc]]
  /\ fr_rpc' = CASE fr_rpc = "dims" -> "rgb"
                  [] fr_rpc = "rgb" -> "times"
                  [] fr_rpc = "times" -> "unlock"
  /\ fr_result' = IF fr_rpc = "times" THEN Some(fr_copy') ELSE fr_result
  /\ UNCHANGED <<frame_mutex_, fr_latest, fr_ready, fr_built,
                 fr_published, fr_tpc, fr_seen>>
  /\ FrameUnchanged

\* line 102: the guard leaves scope and the call returns
RdUnlock ==
  /\ fr_rpc = "unlock"
  /\ frame_mutex_' = "none"
  /\ fr_rpc' = "returned"
  /\ UNCHANGED <<fr_latest, fr_ready, fr_built, fr_published, fr_tpc,
                 fr_copy, fr_seen, fr_result>>
  /\ FrameUnchanged

InitFrame ==
  /\ InitSession
  /\ ModeIdle
  /\ YuvIdle
  /\ FindIdle
  /\ AudioInit
  /\ GainIdle
  /\ MonIdle
  /\ EnumIdle
  /\ FrameIdle
  /\ PoolIdle

NextFrame ==
  \/ FrBuild
  \/ FrLock
  \/ FrMove
  \/ FrSetReady
  \/ FrUnlock
  \/ RdLock
  \/ RdCheck
  \/ RdCopy
  \/ RdUnlock

SpecFrame == InitFrame /\ [][NextFrame]_vars

----------------------------------------------------------------------------
(* util::ThreadPool, util/thread_pool.hpp and thread_pool.cpp (part_007) *)

\* thread counts given to the constructor, tasks enqueued
MaxThreads == 2
MaxTasks == 3

\* ThreadPool::ThreadPool, part_007 lines 8-10
thread_count(requested) == IF requested = 0 THEN 2 ELSE requested

\* one entry of threads_: pc is "ready" (about to lock mutex_ and test the
\* predicate of cv_.wait), "wait" (blocked in cv_.wait), "run" (holding a
\* task, mutex_ released) or "exited"
Worker(pc, task) == [pc |-> pc, task |-> task]

\* the pool of the other specifications' initial states has no thread
PoolUnchanged ==
  UNCHANGED <<sessVars, threadVars, callerVars, kernelVars,
              session_published, modeVars, yuvVars, findVars, audioVars,
              gainVars, monVars, enumVars, frameVars>>

\* a worker that returns as soon as stopping_ is set
leaves_when_stopping(stopping, tasks) == stopping

\* part_007 line 36: the test that makes worker_loop return
leaves(stopping, tasks) == stopping /\ tasks = << >>

\* part_007 line 35: the predicate of cv_.wait
wait_over(stopping, tasks) == stopping \/ tasks # << >>

\* worker_loop, part_007 lines 33-41: with mutex_ held, wait until the
\* predicate holds (blocking releases mutex_), then return or take the
\* front task
WorkerTake(w) ==
  /\ tp_workers[w].pc = "ready"
  /\ IF ~wait_over(stopping_, tasks_)
     THEN /\ tp_workers' = [tp_workers EXCEPT ![w] = Worker("wait", 0)]
          /\ UNCHANGED tasks_
     ELSE IF leaves(stopping_, tasks_)
     THEN /\ tp_workers' = [tp_workers EXCEPT ![w] = Worker("exited", 0)]
          /\ UNCHANGED tasks_
     ELSE /\ tasks_ # << >>
          /\ tp_workers' = [tp_workers EXCEPT ![w] = Worker("run", Head(tasks_))]
          /\ tasks_' = Tail(tasks_)
  /\ UNCHANGED <<stopping_, tp_main, tp_enqueued, tp_runs, tp_joined>>
  /\ PoolUnchanged

\* worker_loop, part_007 lines 42-48: task() returns or throws; what it
\* throws is caught and logged, and the loop goes on
WorkerRun(w) ==
  /\ tp_workers[w].pc = "run"
  /\ tp_runs' = [tp_runs EXCEPT ![tp_workers[w].task] = @ + 1]
  /\ tp_workers' = [tp_workers EXCEPT ![w] = Worker("ready", 0)]
  /\ UNCHANGED <<tasks_, stopping_, tp_main, tp_enqueued, tp_joined>>
  /\ PoolUnchanged

\* std::condition_variable::wait may wake up without a notification
WorkerWakesSpuriously(w) ==
  /\ tp_workers[w].pc = "wait"
  /\ tp_workers' = [tp_workers EXCEPT ![w] = Worker("ready", 0)]
  /\ UNCHANGED <<tasks_, stopping_, tp_main, tp_enqueued, tp_runs, tp_joined>>
  /\ PoolUnchanged

\* the workers blocked in cv_.wait
Waiting == { w \in DOMAIN tp_workers : tp_workers[w].pc = "wait" }

\* enqueue, thread_pool.hpp lines 29-36: the task is pushed with mutex_ held
Enqueue ==
  /\ tp_main = "use"
  /\ tp_enqueued < MaxTasks
  /\ tp_enqueued' = tp_enqueued + 1
  /\ tasks_' = Append(tasks_, tp_enqueued + 1)
  /\ tp_main' = "notify_one"
  /\ UNCHANGED <<stopping_, tp_workers, tp_runs, tp_joined>>
  /\ PoolUnchanged

\* enqueue, thread_pool.hpp lines 37-38: cv_.notify_one() wakes one of the
\* waiting workers, if there is one
NotifyOne ==
  /\ tp_main = "notify_one"
  /\ IF Waiting = {}
     THEN UNCHANGED tp_workers
     ELSE \E w \in Waiting :
            tp_workers' = [tp_workers EXCEPT ![w] = Worker("ready", 0)]
  /\ tp_main' = "use"
  /\ UNCHANGED <<tasks_, stopping_, tp_enqueued, tp_runs, tp_joined>>
  /\ PoolUnchanged

\* ~ThreadPool, part_007 lines 18-21
PoolDtorStop ==
  /\ tp_main = "use"
  /\ stopping_' = TRUE
  /\ tp_main' = "notify_all"
  /\ UNCHANGED <<tasks_, tp_workers, tp_enqueued, tp_runs, tp_joined>>
  /\ PoolUnchanged

\* ~ThreadPool, part_007 line 22: cv_.notify_all()
PoolDtorNotifyAll ==
  /\ tp_main = "notify_all"
  /\ tp_workers' = [w \in DOMAIN tp_workers |->
                      IF w \in Waiting THEN Worker("ready", 0)
                      ELSE tp_workers[w]]
  /\ tp_main' = "join"
  /\ UNCHANGED <<tasks_, stopping_, tp_enqueued, tp_runs, tp_joined>>
  /\ PoolUnchanged

\* ~ThreadPool, part_007 lines 23-27: join the threads in order; join()
\* returns once the thread's worker_loop has returned
PoolDtorJoin ==
  /\ tp_main = "join"
  /\ IF tp_joined = Len(tp_workers)
     THEN tp_main' = "done" /\ UNCHANGED tp_joined
     ELSE /\ tp_workers[tp_joined + 1].pc = "exited"
          /\ tp_joined' = tp_joined + 1
          /\ UNCHANGED tp_main
  /\ UNCHANGED <<tasks_, stopping_, tp_workers, tp_enqueued, tp_runs>>
  /\ PoolUnchanged

\* the pool after ThreadPool(requested), part_007 lines 7-15: every thread
\* is about to enter worker_loop
InitPool ==
  /\ InitSession
  /\ ModeIdle
  /\ YuvIdle
  /\ FindIdle
  /\ AudioInit
  /\ GainIdle
  /\ MonIdle
  /\ EnumIdle
  /\ FrameIdle
  /\ tasks_ = << >> /\ stopping_ = FALSE
  /\ \E requested \in 0..MaxThreads :
       tp_workers = [w \in 1..thread_count(requested) |-> Worker("ready", 0)]
  /\ tp_main = "use"
  /\ tp_enqueued = 0
  /\ tp_runs = [t \in 1..MaxTasks |-> 0]
  /\ tp_joined = 0

\* a step of worker w: worker_loop, part_007 lines 30-50
WorkerStep(w) ==
  /\ w \in DOMAIN tp_workers
  /\ WorkerTake(w) \/ WorkerRun(w)

\* a step inside enqueue or the destructor
OwnerStep ==
  \/ NotifyOne
  \/ PoolDtorNotifyAll
  \/ PoolDtorJoin

NextPool ==
  \/ \E w \in DOMAIN tp_workers : WorkerTake(w)
  \/ \E w \in DOMAIN tp_workers : WorkerRun(w)
  \/ \E w \in DOMAIN tp_workers : WorkerWakesSpuriously(w)
  \/ Enqueue
  \/ NotifyOne
  \/ PoolDtorStop
  \/ PoolDtorNotifyAll
  \/ PoolDtorJoin

\* The pool under fair scheduling: a worker that can take a step takes one
\* (the threads are scheduled and a task returns or throws), and a call of
\* enqueue or of the destructor that has begun goes on.  Nothing obliges
\* the owner to enqueue or to destroy the pool, and no wake-up without a
\* notification is relied on.
SpecPool ==
  /\ InitPool /\ [][NextPool]_vars
  /\ \A w \in 1..MaxThreads : WF_vars(WorkerStep(w))
  /\ WF_vars(OwnerStep)


----------------------------------------------------------------------------
(* Claims C1-C10: CaptureSession *)

StopReturned == curOp.name = "stop" /\ stack = << >>

\* the current call ran configure_device and start() is over
StartOver == stack = << >> /\ "OPEN" \in Ops(oplog)

Positions(log, op) == { i \in 1..Len(log) : log[i].op = op }

NoLeak == k_open = 0 /\ k_maps = 0

\* C1: whenever stop() has returned, the capture thread has been joined: the
\* worker is neither alive nor left joinable, whether it was streaming when
\* stop() was called or had ended itself after a fatal I/O error.
C1_StopJoinsWorker ==
  StopReturned => (~worker_ /\ tpc = "none")

\* C2: after a fatal I/O error has ended the capture thread and cleared
\* running_, a start() on a device that accepts the configuration returns
\* true with a new capture thread running, and does not fault.
C2_RestartAfterFatal ==
  (curOp.name = "start" /\ curOp.after_fatal /\ StartOver /\ cfg.ok)
    => (~crashed /\ ret = "true" /\ worker_)

\* C3: after stop() returns, is_running() is false, the descriptor is closed
\* and no buffer is mapped, and a start() that immediately follows it on the
\* same path, with a device that accepts the configuration, succeeds.
C3_StopThenStart ==
  /\ StopReturned => (~running_ /\ fd_ = -1 /\ buffers_ = << >> /\ NoLeak)
  /\ (curOp.name = "start" /\ curOp.after_stop /\ curOp.same_path
        /\ StartOver /\ cfg.ok)
       => (ret = "true" /\ ~crashed)

\* C4: start() on a node that lacks the video-capture or the streaming
\* capability returns false and leaves the session Idle: not running, no
\* capture thread spawned, descriptor closed, no buffer requested or mapped,
\* no format applied.
C4_UnsupportedStaysIdle ==
  (curOp.name = "start" /\ StartOver /\ cfg.failed = "NONE"
     /\ ~({"VIDEO_CAPTURE", "STREAMING"} \subseteq cfg.caps))
    => /\ ret = "false"
       /\ Idle /\ NoLeak
       /\ ~ThreadAlive
       /\ Ops(oplog) \cap {"S_FMT", "S_PARM", "REQBUFS", "MMAP", "QBUF",
                           "STREAMON", "SPAWN"} = {}

C4_Witness ==
  /\ curOp.name = "start" /\ StartOver /\ cfg.failed = "NONE"
  /\ cfg.caps = {"VIDEO_CAPTURE"}
  /\ ret = "false"

\* what start() leaves when it gives up
StartAborted ==
  /\ ret = "false"
  /\ Idle /\ NoLeak
  /\ "SPAWN" \notin Ops(oplog)
  /\ ~crashed

\* C5 as stated: if any driver request of the configuration sequence fails,
\* VIDIOC_S_PARM included, start() returns false, every mapped buffer is
\* unmapped, the descriptor is closed, no thread is spawned and the session
\* remains Idle.
C5_AnyFailureAborts ==
  (StartOver /\ (cfg.failed # "NONE" \/ cfg.parm_failed)) => StartAborted

\* C5 as amended: if any driver request of the configuration sequence other
\* than VIDIOC_S_PARM fails, start() returns false, every mapped buffer is
\* unmapped, the descriptor is closed, no thread is spawned and the session
\* remains Idle; a refused VIDIOC_S_PARM alone does not make configure_device
\* fail.
C5_FailureAborts ==
  /\ (StartOver /\ cfg.failed # "NONE") => StartAborted
  /\ (StartOver /\ cfg.parm_failed /\ cfg.failed = "NONE") => cfg.ok

C5_Witness ==
  /\ StartOver /\ cfg.failed = "QBUF"
  /\ "MUNMAP" \in Ops(oplog)
  /\ StartAborted

\* C6: stop() is idempotent: a stop() leaves the session Idle, and a stop()
\* on an Idle session, or one that follows a stop(), changes no state.
C6_StopIdempotent ==
  [][ (curOp.name = "stop" /\ (StopCheck \/ StopJoin) /\ stack' = << >>)
        => /\ Idle'
           /\ (Idle \/ curOp.after_stop)
                => UNCHANGED <<sessVars, threadVars, kernelVars>> ]_vars

C6_Witness ==
  StopReturned /\ curOp.after_stop /\ Idle

\* C7: set_latency_preset(p) on a Streaming session with a new preset runs
\* exactly one stop/start cycle: the old capture thread is joined and the old
\* buffers and descriptor are released before the device is reopened, it is
\* reopened once, with the same path and the new preset's buffer count, and
\* two descriptors, buffer pools or capture threads never exist together.
C7_OneCleanCycle ==
  (curOp.name = "set_latency_preset" /\ curOp.cycle /\ "OPEN" \in Ops(oplog))
    => /\ Cardinality(Positions(oplog, "OPEN")) = 1
       /\ \A i \in Positions(oplog, "OPEN") :
            /\ oplog[i].arg = curOp.path
            /\ \E j \in Positions(oplog, "JOIN") : j < i
            /\ \E j \in Positions(oplog, "CLOSE") : j < i
       /\ \A i \in Positions(oplog, "REQBUFS") :
            oplog[i].arg = preset_to_buffer_count(curOp.preset)
       /\ k_open <= 1
       /\ ~crashed

\* C8: set_latency_preset(p) with p equal to the current preset returns true
\* and changes nothing: running flag, capture thread, descriptor, buffer
\* pool, device path and published frame stay as they are, and neither stop
\* nor start runs.
C8_SamePresetNoOp ==
  [][ \A p \in Presets :
        (CallSetLatencyPreset(p) /\ p = preset_)
          => /\ ret' = "true"
             /\ stack' = << >>
             /\ oplog' = << >>
             /\ UNCHANGED <<sessVars, threadVars, kernelVars>> ]_vars

C8_Witness ==
  /\ curOp.name = "set_latency_preset" /\ ~curOp.cycle
  /\ curOp.preset = preset_
  /\ running_ /\ tpc = "poll"
  /\ ret = "true" /\ stack = << >>

\* C10: a frame returned by latest_frame() has an RGB buffer of stride *
\* height bytes, with stride = 3 * width of that frame.
C10_FrameBufferLength ==
  latest_frame.has
    => /\ latest_frame.frame.rgb_len
            = latest_frame.frame.stride * latest_frame.frame.height
       /\ latest_frame.frame.stride = 3 * latest_frame.frame.width

C10_Witness ==
  latest_frame.has /\ latest_frame.frame.width = 640 /\ stack = << >>


----------------------------------------------------------------------------
(* Claim C9: mode selection (SpecMode) *)

Mode(w, h, n, d) == [width |-> w, height |-> h, num |-> n, den |-> d]

\* the (size, interval) candidates one driver answer contributes: those of
\* the supported encoding with a discrete size, a stepwise interval
\* contributing its minimum and its maximum, in that order
AnswerModes(c) ==
  IF c.pixfmt # "YUYV" \/ c.size_type # "DISCRETE" THEN << >>
  ELSE IF c.ival_type = "DISCRETE"
       THEN <<Mode(c.width, c.height, c.num, c.den)>>
  ELSE IF c.ival_type = "STEPWISE"
       THEN <<Mode(c.width, c.height, c.num, c.den),
              Mode(c.width, c.height, c.max_num, c.max_den)>>
  ELSE << >>

RECURSIVE NonZero(_)
NonZero(ms) ==
  IF ms = << >> THEN << >>
  ELSE IF Head(ms).num # 0 /\ Head(ms).den # 0
       THEN <<Head(ms)>> \o NonZero(Tail(ms))
       ELSE NonZero(Tail(ms))

\* the candidates with a non-zero interval among the first n answers, in
\* enumeration order
RECURSIVE Candidates(_, _)
Candidates(enumeration, n) ==
  IF n = 0 THEN << >>
  ELSE Candidates(enumeration, n - 1) \o NonZero(AnswerModes(enumeration[n]))

\* score(a) <= score(b) for score = width * height * den / num
ScoreLeq(a, b) ==
  a.width * a.height * a.den * b.num <= b.width * b.height * b.den * a.num

\* C9: over the candidates enumerated so far, the chosen mode has the maximum
\* score width*height*fps, and it is the earliest candidate with that score;
\* without any candidate the default mode is kept.
C9_BestIsEarliestMax ==
  LET cs == Candidates(m_enum, m_idx - 1)
      chosen == Mode(m_best.width, m_best.height, m_best.num, m_best.den)
  IN IF cs = << >>
     THEN m_best = BestInit(DefaultWidth, DefaultHeight)
     ELSE /\ m_best.valid
          /\ m_best.pixel_format = "YUYV"
          /\ \E i \in 1..Len(cs) :
               /\ cs[i] = chosen
               /\ \A j \in 1..Len(cs) : ScoreLeq(cs[j], cs[i])
               /\ \A j \in 1..(i - 1) : ~ScoreLeq(cs[i], cs[j])

\* the enumeration is over and held two different candidates of maximum score
C9_Witness ==
  LET cs == Candidates(m_enum, Len(m_enum))
  IN /\ m_idx = Len(m_enum) + 1
     /\ m_best.valid
     /\ \E i, j \in 1..Len(cs) :
          /\ i < j /\ cs[i] # cs[j]
          /\ ScoreLeq(cs[i], cs[j]) /\ ScoreLeq(cs[j], cs[i])
          /\ \A k \in 1..Len(cs) : ScoreLeq(cs[k], cs[i])

----------------------------------------------------------------------------
(* Claim C11: latest_frame() across sessions *)

\* C11: latest_frame() returns a frame only if the capture thread spawned by
\* the latest successful start() has published one; after a successful
\* start() it is empty until then, and never a frame of an earlier session.
C11_NoStaleFrame == latest_frame.has => session_published

----------------------------------------------------------------------------
(* Claims C12, C13: yuyv_to_rgb *)

Near(x, target) == x \in (target - 1)..(target + 1)

\* pixel p (0 or 1) of the converted group
Pixel(p) == SubSeq(y_dst, 3 * p + 1, 3 * p + 3)
Luma(p) == y_src[2 * p + 1]

\* C12: for an image smaller than 720p, a pixel of a group with U = V = 128
\* comes out white (255,255,255) for Y = 235 and black (0,0,0) for Y = 16,
\* each channel within 1; the two pixels of a group share its U and V, so
\* equal lumas give equal pixels.
C12_Bt601Fixtures ==
  (y_dst # << >> /\ y_width < 1280 /\ y_height < 720) =>
    /\ \A p \in {0, 1} :
         (y_src[2] = 128 /\ y_src[4] = 128) =>
           /\ Luma(p) = 235 => \A i \in 1..3 : Near(Pixel(p)[i], 255)
           /\ Luma(p) = 16 => \A i \in 1..3 : Near(Pixel(p)[i], 0)
    /\ Luma(0) = Luma(1) => Pixel(0) = Pixel(1)

\* a 640x480 group holding a white and a black pixel has been converted
C12_Witness ==
  /\ y_dst = <<255, 255, 255, 0, 0, 0>>
  /\ y_src = <<235, 128, 16, 128>>
  /\ y_width = 640 /\ y_height = 480

\* C13: an image with width >= 1280 and height >= 720 is converted with the
\* BT.709 weights, every other image (width < 1280 or height < 720) with the
\* BT.601 weights.
C13_Bt709IffBothLarge ==
  y_dst # << >> =>
    y_dst = yuyv_group_with(y_src,
                            Coeffs(y_width >= 1280 /\ y_height >= 720))

----------------------------------------------------------------------------
(* Claim C14: audio node resolution *)

\* an audio source node of the registry
IsSource(g) ==
  g.type = "Node" /\ Has(g.media_class)
  /\ has_audio_source(Val(g.media_class))

\* its bus/serial identifier equals the bus-path hint
BusMatch(g) ==
  /\ IsSource(g) /\ Has(f_bus_path) /\ Has(lookup_bus(g))
  /\ Val(lookup_bus(g)) = Val(f_bus_path)

\* it matches the description hint only
DescOnlyMatch(g) ==
  /\ IsSource(g) /\ ~BusMatch(g)
  /\ hint_matches(SourceFinder(f_bus_path, f_label_hint).hints, g)

InRegistry(g) == \E i \in 1..Len(f_registry) : f_registry[i] = g

\* C14: when the registry holds a source node matching the bus-path hint and
\* a different source node matching only the description hint, a resolution
\* that selects a node selects one matching the bus path, in whatever order
\* the nodes are announced.
C14_BusPathWins ==
  (/\ f_pc = "done" /\ Has(f_result)
   /\ \E b, d \in Catalog :
        /\ InRegistry(b) /\ InRegistry(d)
        /\ BusMatch(b) /\ DescOnlyMatch(d))
  => \E b \in Catalog :
       InRegistry(b) /\ BusMatch(b) /\ Val(f_result) = b.id

----------------------------------------------------------------------------
(* Claims C15-C20: PipeWireController *)

\* C15: once the capture stream has negotiated a format, an existing playback
\* stream is one that was created with that format (it was destroyed and
\* re-created if its format differed).
C15_PlaybackFollowsCapture ==
  (/\ ~pw_fault /\ Has(impl_.capture_stream)
   /\ Has(Val(impl_.capture_stream).format)
   /\ Has(impl_.playback_stream))
  => Val(impl_.playback_stream).info = Val(Val(impl_.capture_stream).format)

\* the latest step was a capture callback that pushed samples
CapturePushed == pw_captured' > pw_captured

\* C16: after a capture callback that pushed n samples the FIFO holds at most
\* max(B, 4n) samples, where B = rate * channels (one second of audio).
C16_FifoBounded ==
  [][CapturePushed =>
       Len(impl_'.fifo) <= Max(impl_'.rate * impl_'.channels,
                               4 * (pw_captured' - pw_captured))]_vars

\* a capture callback has left more than B samples in the FIFO, as 4n allows
C16_Witness ==
  /\ pw_call = NoCall /\ pw_out = NoOut
  /\ Len(impl_.fifo) > impl_.rate * impl_.channels
  /\ Len(impl_.fifo) = 4
  /\ impl_.fifo[1].seq > 1
  /\ impl_.fifo[4].seq = impl_.fifo[1].seq + 3

C18_FallbackStart ==
  (pw_call.name = "start" /\ ~pw_fault) =>
    /\ (pw_call.ret = "true") <=> (pw_call.loop_ok /\ pw_call.capture = "ok")
    /\ impl_.fallback_route
         <=> (~Has(impl_.node_id) /\ ~Has(pw_call.found))
    /\ pw_call.ret = "true" =>
         /\ Has(impl_.capture_stream)
         /\ Val(impl_.capture_stream).target =
              IF Has(impl_.node_id) THEN impl_.node_id ELSE pw_call.found

\* start() without a node id matched nothing and runs on the default route
C18_Witness ==
  /\ pw_call.name = "start" /\ pw_call.ret = "true"
  /\ ~Has(impl_.node_id) /\ ~Has(pw_call.found)
  /\ impl_.fallback_route
  /\ Val(impl_.capture_stream).target = None
  /\ impl_.running

\* C19: when MainWindow has started audio, the fallback indication it shows
\* is true exactly when the controller runs on the fallback route.
C19_FallbackObservable ==
  (/\ pw_call.name = "start" /\ pw_call.by_app /\ pw_call.ret = "true"
   /\ app_pc = "idle")
  => (audio_using_fallback_ <=> impl_.fallback_route)

\* C20: when stop() returns, both streams are destroyed (is_running() is
\* false), the pump thread is joined, the main loop is released, the FIFO is
\* empty and the peak level is zero; on a controller that holds nothing
\* already, stop() changes nothing.
C20_StopReleasesAll ==
  [][(pw_call'.name = "stop" /\ pw_call'.ret = "void") =>
       /\ Stopped(impl_') /\ peak_level_' = "zero"
       /\ ~Has(impl_'.capture_stream)
       /\ (Stopped(impl_) /\ peak_level_ = "zero") =>
            (impl_' = impl_ /\ peak_level_' = peak_level_)]_vars

\* stop() has returned on a controller that had captured samples
C20_Witness ==
  /\ pw_call.name = "stop" /\ pw_call.ret = "void"
  /\ pw_captured > 0
  /\ Stopped(impl_) /\ peak_level_ = "zero"


\* ---------------------------------------------------------------------
\* C21: when the capture stream reports the error state from inside a
\* stream callback, the controller ends up stopped (loop gone, streams
\* gone, not running) and the process neither deadlocks nor faults: the
\* pump thread is never joined from itself.
C21_ErrorStopsCleanly ==
  pw_call.name = "capture_error" => ~pw_fault /\ Stopped(impl_)

\* ---------------------------------------------------------------------
\* C22: the gain and the peak level are shared between the interface
\* thread and the capture callback only through atomic reads and writes:
\* no interleaving of set_gain() / gain() with the callback's read of the
\* gain is an unsynchronized access to a non-atomic variable.
C22_NoDataRace == ~Race

\* ---------------------------------------------------------------------
\* C23: the hotplug monitor invokes the registered callback exactly once
\* for each device event it receives, in order, and never without a
\* received event: the invocations equal the received events, but for the
\* event received in this iteration and not yet dispatched; a wait that
\* times out, or an event that yields no device, fires nothing.
C23_OncePerEvent ==
  dm_callback_ =>
    IF dm_pc = "dispatch" /\ Has(dm_device)
    THEN dm_received = Append(dm_called, Val(dm_device))
    ELSE dm_called = dm_received

\* callbacks were fired, an event yielded no device, and the latest wait
\* timed out
C23_Witness ==
  /\ dm_callback_ /\ Len(dm_called) >= 2
  /\ Len(dm_called) < dm_next - 1
  /\ dm_select = "timeout" /\ dm_pc = "loop"

\* ---------------------------------------------------------------------
\* C24: the DeviceMonitor destructor joins the watcher thread before it
\* returns: once it has returned, run() has returned, so no callback
\* invocation is executing and none starts afterwards.
C24_JoinedBeforeReturn ==
  dm_dtor = "returned" => dm_pc = "done" /\ ~dm_thread_

\* the destructor returned after callbacks had fired, with an event still
\* queued that is never dispatched
C24_Witness ==
  /\ dm_dtor = "returned" /\ dm_callback_
  /\ dm_called # << >> /\ dm_socket # << >>

\* ---------------------------------------------------------------------
\* C25: enumerate_devices() always returns a list: a node that fails to
\* open or fails the capability query contributes no record, every other
\* video node contributes exactly one record, the records are ordered by
\* path, and every descriptor that was opened has been closed when the
\* call returns.
Inspectable(entry) ==
  is_video_node(entry) /\ entry.kind \notin {"open_fails", "querycap_fails"}

RecordsOf(entry) ==
  {i \in 1..Len(en_devices) : en_devices[i].path = entry.name}

C25_EnumerateSkipsAndCloses ==
  en_pc = "returned" =>
    /\ \A k \in 1..Len(en_dir) :
         Cardinality(RecordsOf(en_dir[k])) =
           IF Inspectable(en_dir[k]) THEN 1 ELSE 0
    /\ \A i, j \in 1..Len(en_devices) :
         i < j => digits_less(en_devices[i].path.digits,
                              en_devices[j].path.digits)
    /\ en_closed = en_opened

\* a directory listed out of order, with a node that fails the capability
\* query and two nodes that are reported
C25_Witness ==
  /\ en_pc = "returned"
  /\ Len(en_devices) = 2
  /\ \E k \in 1..Len(en_dir) : en_dir[k].kind = "querycap_fails"
                                 /\ is_video_node(en_dir[k])
  /\ en_nodes # SelectSeq(en_dir, is_video_node)

\* ---------------------------------------------------------------------
\* C26: the snapshot is written and copied only while the frame mutex is
\* held: a frame returned by latest_frame() is a copy of exactly one
\* published frame (dimensions, pixels and timestamps come from the same
\* publish), and that publish is the most recent one completed when the
\* call read the snapshot; nullopt is returned only before the first
\* publish.
C26_SnapshotUnderMutex ==
  /\ fr_tpc \in {"dims", "rgb", "times", "ready", "unlock"}
       => frame_mutex_ = "thread"
  /\ fr_rpc \in {"check", "dims", "rgb", "times", "unlock"}
       => frame_mutex_ = "reader"
  /\ fr_rpc = "returned" =>
       IF Has(fr_result)
       THEN fr_seen >= 1 /\ Val(fr_result) = FrameOf(fr_seen)
       ELSE fr_seen = 0

\* latest_frame() returned the second publish and the capture thread has
\* built a third frame since
C26_Witness ==
  /\ fr_rpc = "returned" /\ Has(fr_result)
  /\ Val(fr_result) = FrameOf(2)
  /\ fr_built = 3

\* ---------------------------------------------------------------------
\* C27: after a capture format change the FIFO contains only samples
\* captured in the current format, so that no sample captured under the
\* previous format is delivered to playback under the new one.
C27_FifoCurrentFormat ==
  \A i \in 1..Len(impl_.fifo) :
    /\ impl_.fifo[i].rate = impl_.rate
    /\ impl_.fifo[i].channels = impl_.channels

\* ---------------------------------------------------------------------
\* C28: the FIFO is first-in first-out with drop-oldest overflow: the
\* samples the playback callback just received, followed by the FIFO
\* content, are a contiguous run of the capture stream in capture order,
\* and a non-empty FIFO ends with the most recently captured sample.
ContiguousRun(samples) ==
  \A i \in 1..(Len(samples) - 1) : samples[i + 1].seq = samples[i].seq + 1

C28_FifoOrder ==
  /\ ContiguousRun(pw_out.copied \o impl_.fifo)
  /\ impl_.fifo # << >> => impl_.fifo[Len(impl_.fifo)].seq = pw_captured

\* after an overflow dropped the oldest sample, playback received two
\* samples and further samples are still buffered
C28_Witness ==
  /\ pw_out.written /\ Len(pw_out.copied) >= 2
  /\ pw_out.copied[1].seq > 1
  /\ Len(impl_.fifo) >= 2

\* ---------------------------------------------------------------------
\* C30: a capture buffer that is empty or holds no complete frame is
\* skipped: a step that pushes no captured sample and is neither start()
\* nor stop() leaves the peak level as it was, so the peak level is never
\* set to the undefined quotient of a zero sample count.
C30_ShortChunkSkipped ==
  [][(pw_captured' = pw_captured /\ pw_call'.name \notin {"start", "stop"})
       => peak_level_' = peak_level_]_vars

\* ---------------------------------------------------------------------
\* C29: a dequeued video buffer that is zero-length or shorter than one
\* full frame is skipped: the step the capture thread takes from its
\* publish block with such a buffer publishes nothing and leaves the
\* previous snapshot in place.
C29_ShortBufferSkipped ==
  [][(tpc = "publish" /\ t_buf.bytesused # "full" /\ tpc' # "publish")
       => /\ latest_frame_' = latest_frame_
          /\ frame_ready_' = frame_ready_
          /\ session_published' = session_published]_vars

\* ---------------------------------------------------------------------
\* C31 as stated: in the capture thread a dequeue that fails with the
\* would-block condition is retried without any effect the caller can
\* see, and any other poll, dequeue or re-queue failure ends the thread,
\* which sets is_running() to false.
ThreadFails == t_err = NoErr /\ t_err' # NoErr

ThreadRetries ==
  /\ tpc' = "loop"
  /\ UNCHANGED <<sessVars, callerVars, kernelVars>>

ThreadGivesUp == tpc' = "exit" /\ t_exit' = "fatal"

ThreadEndClearsRunning == (tpc = "exit" /\ tpc' = "done") => ~running_'

C31_OnlyWouldBlockRetried ==
  [][/\ ThreadFails =>
          IF t_err' = Err("dqbuf", "EAGAIN")
          THEN ThreadRetries ELSE ThreadGivesUp
     /\ ThreadEndClearsRunning]_vars

\* C31 amended: an interrupted readiness wait (poll failing with EINTR) is
\* retried as well; every other poll, dequeue or re-queue failure ends the
\* thread, which sets is_running() to false.
C31_TransientRetried ==
  [][/\ ThreadFails =>
          IF t_err' \in {Err("dqbuf", "EAGAIN"), Err("poll", "EINTR")}
          THEN ThreadRetries ELSE ThreadGivesUp
     /\ ThreadEndClearsRunning]_vars

\* a would-block dequeue was retried after a frame had been published,
\* and the session is still running
C31_Witness ==
  /\ t_err = Err("dqbuf", "EAGAIN") /\ tpc = "loop"
  /\ running_ /\ frame_ready_ /\ session_published

\* ---------------------------------------------------------------------
\* C32: the capture thread dequeues one buffer at a time and re-queues it
\* after publishing and before the next dequeue: at most one buffer of
\* the pool is outside the driver, between dequeue and re-queue it is the
\* buffer the thread holds (the index it will hand back), and at the loop
\* head, in the readiness wait and at the dequeue none is outside.
Pool == {i - 1 : i \in 1..Len(buffers_)}

Outside == Pool \ k_queued

C32_OneBufferOut ==
  /\ Cardinality(Outside) <= 1
  /\ tpc \in {"publish", "qbuf"} => Outside = {t_buf.index}
  /\ tpc \in {"loop", "poll", "dqbuf"} => Outside = {}

\* the thread holds a buffer of a pool of four, after it had published
\* and re-queued an earlier one
C32_Witness ==
  /\ tpc = "publish" /\ session_published
  /\ Len(buffers_) = 4 /\ Cardinality(k_queued) = 3
  /\ t_buf.index \notin k_queued

\* ---------------------------------------------------------------------
\* C33: a start() that succeeded requested 2, 4 or 6 buffers for the
\* presets UltraLow, Balanced and Safe, mapped and enqueued every buffer
\* the driver granted before it switched streaming on, and switched
\* streaming on before it spawned the capture thread.
At(op, arg) == {k \in 1..Len(oplog) : oplog[k] = Ev(op, arg)}

Before(ks, ls) == \A k \in ks, l \in ls : k < l

StartSucceeded == ret = "true" /\ At("SPAWN", 0) # {}

C33_BuffersBeforeStreaming ==
  StartSucceeded =>
    /\ At("REQBUFS", IF preset_ = "UltraLow" THEN 2
                     ELSE IF preset_ = "Balanced" THEN 4 ELSE 6) # {}
    /\ Len(buffers_) = cfg.granted
    /\ \A i \in 0..(cfg.granted - 1) :
         /\ At("MMAP", i) # {} /\ At("QBUF", i) # {}
         /\ Before(At("MMAP", i), At("QBUF", i))
         /\ Before(At("QBUF", i), At("STREAMON", 0))
    /\ At("STREAMON", 0) # {}
    /\ Before(At("STREAMON", 0), At("SPAWN", 0))

\* start() succeeded with the preset Safe on a driver that granted five
\* of the six buffers
C33_Witness ==
  /\ StartSucceeded /\ preset_ = "Safe" /\ cfg.granted = 5
  /\ running_ /\ tpc = "loop"

\* ---------------------------------------------------------------------
\* C34: stop is eventually honoured by the capture thread.  Once stop() has
\* cleared running_ and waits in join(), the next test of the loop
\* condition leaves the loop (so at most the readiness wait already under
\* way is completed, whatever poll() and VIDIOC_DQBUF report), and under
\* fair scheduling stop() eventually returns.
StopWaiting == stack # << >> /\ Head(stack) = "stop_join"

LoopTested == tpc = "loop" /\ tpc' # "loop"

C34_StopHonoured ==
  /\ [][(StopWaiting /\ LoopTested) => (tpc' = "exit" /\ t_exit' = "stop")]_vars
  /\ (StopWaiting ~> ~StopWaiting)

\* stop() waits while the capture thread is inside its readiness wait
C34_Witness == StopWaiting /\ worker_ /\ tpc = "poll" /\ ~running_

\* ---------------------------------------------------------------------
\* C35: audio node resolution always terminates.  The scan loop takes no
\* further iteration once a node is selected or the deadline has passed, a
\* selected node is never replaced by a node announced later, and under
\* fair scheduling find_source_node returns, with the selected node or with
\* nullopt when no node matched, so that start() proceeds with the node or
\* with the fallback route.
ScanOver == f_pc = "scan" /\ (Has(f_finder.node_id) \/ f_expired)

NodeKept == Has(f_finder.node_id) => f_finder' = f_finder

\* global g is one a finder that holds no node selects
Selects(g) ==
  Has(registry_global_cb(SourceFinder(f_bus_path, f_label_hint), g).node_id)

\* the node held is the first of the announced globals that was selected,
\* whatever was announced after it
FirstKept ==
  Has(f_finder.node_id) =>
    \E i \in 1..(f_next - 1) :
      /\ Selects(f_registry[i])
      /\ f_registry[i].id = Val(f_finder.node_id)
      /\ \A j \in 1..(i - 1) : ~Selects(f_registry[j])

FindReturned ==
  /\ f_pc = "done"
  /\ f_result \in {None, f_finder.node_id}
  /\ resolve_route(None, f_result).fallback = ~Has(f_result)

C35_ResolutionTerminates ==
  /\ [][ScanOver => (f_pc' = "done" /\ f_result' = f_finder.node_id)]_vars
  /\ [][NodeKept]_vars
  /\ []FirstKept
  /\ (f_pc = "idle" ~> FindReturned)

\* a node was returned although another selectable one was announced in
\* the same scan
LaterNodeIgnored ==
  /\ f_pc = "done" /\ Has(f_result)
  /\ \E i \in 1..(f_next - 1) :
       Selects(f_registry[i]) /\ f_registry[i].id # Val(f_result)

\* the scan ran out of time with every global announced and none selected
C35_Witness ==
  /\ f_pc = "done" /\ f_expired /\ f_next > Len(f_registry)
  /\ Len(f_registry) > 0
  /\ f_result = None /\ f_finder.hints # << >>

\* ---------------------------------------------------------------------
\* C36: for the bytes Y, U, V of a converted group and both coefficient
\* sets, each output channel equals
\* clamp((298*max(Y-16,0) + chroma term + 128) >> 8, 0, 255), the sum stays
\* inside the range of int, every output is in 0..255 and a Y below 16 gives
\* what Y = 16 gives.
ChromaTerms(u, v, k) ==
  <<k.r_v * (v - 128),
    0 - k.g_u * (u - 128) - k.g_v * (v - 128),
    k.b_u * (u - 128)>>

Channel(y, chroma) ==
  Min(Max((298 * Max(y - 16, 0) + chroma + 128) \div 256, 0), 255)

PixelAsClaimed(y, u, v, k, rgb) ==
  \A ch \in 1..3 :
    /\ InInt(298 * Max(y - 16, 0)) /\ InInt(ChromaTerms(u, v, k)[ch])
    /\ InInt(298 * Max(y - 16, 0) + ChromaTerms(u, v, k)[ch] + 128)
    /\ rgb[ch] = Channel(y, ChromaTerms(u, v, k)[ch])
    /\ rgb[ch] \in 0..255
    /\ y < 16 => rgb[ch] = convert(16, u - 128, v - 128, k)[ch]

C36_ChannelFormula ==
  y_dst # << >> =>
    \E k \in {Coeffs(use_bt709(y_width, y_height))} :
      /\ PixelAsClaimed(y_src[1], y_src[2], y_src[4], k, SubSeq(y_dst, 1, 3))
      /\ PixelAsClaimed(y_src[3], y_src[2], y_src[4], k, SubSeq(y_dst, 4, 6))

\* a converted group with a luma below 16 whose red is clamped from below
\* and whose blue is clamped from above
C36_Witness ==
  /\ y_dst # << >>
  /\ y_src[1] = 15 /\ y_src[2] = 255 /\ y_src[4] = 0
  /\ y_dst[1] = 0 /\ y_dst[3] = 255
  /\ 298 * Max(y_src[1] - 16, 0) + ChromaTerms(255, 0, Coeffs(FALSE))[1] + 128 < 0
  /\ (298 * Max(y_src[1] - 16, 0) + ChromaTerms(255, 0, Coeffs(FALSE))[3] + 128) \div 256 > 255

\* ---------------------------------------------------------------------
\* C37: when start() returns false the controller is as stop() leaves it:
\* no capture stream, no playback stream and no main loop are held, no
\* playback stream outlives the main loop it was created on, and the stop()
\* or start() that follows touches no released object.
StartFailed == pw_call'.name = "start" /\ pw_call'.ret = "false"

C37_FailedStartLeavesNothing ==
  /\ [][StartFailed => (Stopped(impl_') /\ ~Dangling(impl_'))]_vars
  /\ [](~pw_fault)

\* ---------------------------------------------------------------------
\* C38: the playback callback never writes more samples into a sink buffer
\* than fit: the samples copied from the FIFO plus the zeros filled in,
\* frames * channels in all, do not exceed what the dequeued buffer holds
\* from the chunk offset on.
C38_WritesFit ==
  pw_out.written => Len(pw_out.copied) + pw_out.zeros <= pw_out.room

\* ---------------------------------------------------------------------
\* C39: for every width and height, yuyv_to_rgb has read at most
\* width*height*2 source bytes and written exactly width*height*3
\* destination bytes when it returns, which is the size of the frame buffer
\* of stride*height bytes the capture thread allocated, also when
\* width*height is odd.
C39_StaysInsideFrame ==
  y_pc = "done" =>
    /\ y_read <= y_width * y_height * 2
    /\ y_written = y_width * y_height * 3
    /\ y_written <= make_frame(y_width, y_height).rgb_len

\* ---------------------------------------------------------------------
\* C40: ThreadPool.  Every task enqueued before the destructor starts is
\* executed exactly once by some worker (never twice, and once when the
\* destructor has returned; under fair scheduling each is executed and the
\* destructor returns); the destructor returns only after the task queue
\* is empty and every worker thread has exited and been joined; a worker
\* exits only when stopping_ is set and the queue is empty.
Exits(w) ==
  /\ w \in DOMAIN tp_workers
  /\ tp_workers[w].pc # "exited" /\ tp_workers'[w].pc = "exited"

DtorReturned == tp_main = "done"

AllJoined ==
  /\ tp_joined = Len(tp_workers)
  /\ \A w \in DOMAIN tp_workers : tp_workers[w].pc = "exited"

C40_PoolDrainsBeforeExit ==
  /\ [](\A t \in 1..MaxTasks : tp_runs[t] <= 1)
  /\ [](DtorReturned =>
          /\ tasks_ = << >> /\ AllJoined
          /\ \A t \in 1..tp_enqueued : tp_runs[t] = 1)
  /\ [][\A w \in 1..MaxThreads :
          Exits(w) => (stopping_ /\ tasks_ = << >>)]_vars
  /\ \A t \in 1..MaxTasks : (tp_enqueued >= t) ~> (tp_runs[t] = 1)
  /\ (stopping_ ~> DtorReturned)

\* the destructor has returned from a pool that was destroyed with tasks
\* still queued: all MaxTasks tasks have run once
C40_Witness ==
  /\ DtorReturned /\ tp_enqueued = MaxTasks
  /\ \A t \in 1..MaxTasks : tp_runs[t] = 1
  /\ Len(tp_workers) = 2


====
